---- MODULE Spec2Model ----
(***************************************************************************)
(* Model of the RobustLinksV2 class (src/robustlinks2.ts and its variants  *)
(* in src/unnamed/part_000, part_001 and src/demo/robustlinks2.js).        *)
(*                                                                         *)
(* JavaScript strings are modelled as sequences of one-character strings,  *)
(* e.g. "http://a" is <<"h","t","t","p",":","/","/","a">>, so that         *)
(* splitting, URL validation, the datetime regular expressions and         *)
(* String.prototype.replace are computed character by character.           *)
(***************************************************************************)
EXTENDS Integers, Sequences, FiniteSets, TLC

(***************************************************************************)
(* JavaScript values that are not strings.                                 *)
(***************************************************************************)
\* the JavaScript value undefined (an absent attribute / omitted argument);
\* a one-element sequence whose element is no character, so it is comparable
\* with, and different from, every string
Undefined == <<"undefined">>

\* the JavaScript value null (parseDatetime's "invalid" result)
Null == [null |-> TRUE]

\* an omitted Date argument (undefined where a Date is expected)
NoDate == [undefined |-> TRUE]

\* JavaScript truthiness of a string-or-undefined value: `!x` is true for
\* undefined and for the empty string
IsFalsy(x) == x = Undefined \/ x = <<>>

(***************************************************************************)
(* Character classes.                                                      *)
(***************************************************************************)
Digits == <<"0", "1", "2", "3", "4", "5", "6", "7", "8", "9">>

UpperLetters == <<"A","B","C","D","E","F","G","H","I","J","K","L","M",
                  "N","O","P","Q","R","S","T","U","V","W","X","Y","Z">>

LowerLetters == <<"a","b","c","d","e","f","g","h","i","j","k","l","m",
                  "n","o","p","q","r","s","t","u","v","w","x","y","z">>

Range(s) == {s[k] : k \in DOMAIN s}

IsDigit(c) == c \in Range(Digits)

IsAlpha(c) == c \in Range(UpperLetters) \cup Range(LowerLetters)

DigitVal(c) == (CHOOSE k \in DOMAIN Digits : Digits[k] = c) - 1

ToLower(c) ==
    IF c \in Range(UpperLetters)
    THEN LowerLetters[CHOOSE k \in DOMAIN UpperLetters : UpperLetters[k] = c]
    ELSE c

\* parseInt of a string of decimal digits
RECURSIVE ParseInt(_)
ParseInt(s) ==
    IF s = <<>> THEN 0
    ELSE 10 * ParseInt(SubSeq(s, 1, Len(s) - 1)) + DigitVal(s[Len(s)])

\* String(n) for a non-negative integer n
RECURSIVE NumToStr(_)
NumToStr(n) ==
    IF n < 10 THEN <<Digits[n + 1]>>
    ELSE NumToStr(n \div 10) \o <<Digits[(n % 10) + 1]>>

\* String(n).padStart(2, '0')
PadStart2(n) == IF n < 10 THEN <<"0">> \o NumToStr(n) ELSE NumToStr(n)

(***************************************************************************)
(* String primitives.                                                      *)
(***************************************************************************)
\* does pat occur in str starting at (1-based) position k
MatchesAt(str, pat, k) ==
    /\ k >= 1
    /\ k + Len(pat) - 1 <= Len(str)
    /\ \A j \in 1..Len(pat) : str[k + j - 1] = pat[j]

\* the first position >= k at which pat occurs in str, 0 when there is none
RECURSIVE IndexFrom(_, _, _)
IndexFrom(str, pat, k) ==
    IF k + Len(pat) - 1 > Len(str) THEN 0
    ELSE IF MatchesAt(str, pat, k) THEN k
    ELSE IndexFrom(str, pat, k + 1)

\* String.prototype.indexOf as a 1-based position, 0 when pat does not occur
IndexOf(str, pat) == IndexFrom(str, pat, 1)

\* the characters of str from position k to the end
From(str, k) == SubSeq(str, k, Len(str))

\* Array.prototype.join
RECURSIVE Join(_, _)
Join(parts, sep) ==
    IF parts = <<>> THEN <<>>
    ELSE IF Len(parts) = 1 THEN parts[1]
    ELSE parts[1] \o sep \o Join(Tail(parts), sep)

\* String.prototype.split with a one-character separator: the pieces between
\* consecutive separators, empty pieces included
RECURSIVE SplitOn(_, _)
SplitOn(str, sepChar) ==
    LET k == IndexOf(str, <<sepChar>>)
    IN  IF k = 0 THEN <<str>>
        ELSE <<SubSeq(str, 1, k - 1)>> \o SplitOn(From(str, k + 1), sepChar)

\* str with every character a replaced by the characters of b
RECURSIVE ReplaceChar(_, _, _)
ReplaceChar(str, a, b) ==
    IF str = <<>> THEN <<>>
    ELSE (IF str[1] = a THEN b ELSE <<str[1]>>) \o ReplaceChar(Tail(str), a, b)

(***************************************************************************)
(* new URL(url), as far as isValidAbsoluteUrl looks at it: the WHATWG URL  *)
(* parser run without a base URL.  Hosts are ASCII domains; the inputs of  *)
(* this model use no IPv4/IPv6 literal, no non-ASCII character and no      *)
(* file: URL, so those branches of the parser are not reached.             *)
(***************************************************************************)
\* C0 control characters and space, which the parser strips from both ends
C0ControlOrSpace == {" ", "\t", "\n", "\r"}

\* ASCII tab and newline, which the parser removes wherever they occur
AsciiTabOrNewline == {"\t", "\n", "\r"}

\* code points that may not occur in a domain
ForbiddenHostCodePoints ==
    {" ", "\t", "\n", "\r", "#", "/", ":", "<", ">", "?", "@", "[", "\\", "]",
     "^", "|", "%"}

RECURSIVE StripLeading(_)
StripLeading(s) ==
    IF s # <<>> /\ s[1] \in C0ControlOrSpace THEN StripLeading(Tail(s)) ELSE s

RECURSIVE StripTrailing(_)
StripTrailing(s) ==
    IF s # <<>> /\ s[Len(s)] \in C0ControlOrSpace
    THEN StripTrailing(SubSeq(s, 1, Len(s) - 1))
    ELSE s

\* the parser's input after preprocessing
UrlInput(url) ==
    SelectSeq(StripTrailing(StripLeading(url)),
              LAMBDA c : c \notin AsciiTabOrNewline)

\* scheme state: the position of the ':' ending a syntactically valid scheme,
\* 0 when the input has no scheme (then, without a base, parsing fails)
SchemeEnd(s) ==
    LET k == IndexOf(s, <<":">>)
    IN  IF /\ k > 1
           /\ IsAlpha(s[1])
           /\ \A j \in 2..(k - 1) :
                 IsAlpha(s[j]) \/ IsDigit(s[j]) \/ s[j] \in {"+", "-", "."}
        THEN k
        ELSE 0

\* URL.protocol without the trailing ':' (lower-cased by the parser)
UrlScheme(s) == [j \in 1..(SchemeEnd(s) - 1) |-> ToLower(s[j])]

\* special authority (ignore) slashes states: leading '/' and '\' are skipped
RECURSIVE SkipSlashes(_)
SkipSlashes(s) ==
    IF s # <<>> /\ s[1] \in {"/", "\\"} THEN SkipSlashes(Tail(s)) ELSE s

\* authority state: everything up to the first '/', '\', '?' or '#'
RECURSIVE Authority(_)
Authority(s) ==
    IF s = <<>> \/ s[1] \in {"/", "\\", "?", "#"} THEN <<>>
    ELSE <<s[1]>> \o Authority(Tail(s))

\* the part of the authority after the last '@' (the credentials are dropped)
RECURSIVE AfterLastAt(_)
AfterLastAt(a) ==
    LET k == IndexOf(a, <<"@">>)
    IN  IF k = 0 THEN a ELSE AfterLastAt(From(a, k + 1))

\* the characters U+0020 .. U+007E in code point order (the grave accent
\* cannot be written in a string of this language and goes by its name)
AsciiPrintable ==
    <<" ","!","\"","#","$","%","&","'","(",")","*","+",",","-",".","/","0",
      "1","2","3","4","5","6","7","8","9",":",";","<","=",">","?","@","A",
      "B","C","D","E","F","G","H","I","J","K","L","M","N","O","P","Q","R",
      "S","T","U","V","W","X","Y","Z","[","\\","]","^","_","U+0060","a","b","c",
      "d","e","f","g","h","i","j","k","l","m","n","o","p","q","r","s","t",
      "u","v","w","x","y","z","{","|","}","~">>

\* the value of a hexadecimal digit, -1 for any other character
HexVal(c) ==
    IF IsDigit(c) THEN DigitVal(c)
    ELSE IF ToLower(c) \in {"a", "b", "c", "d", "e", "f"}
    THEN 9 + (CHOOSE k \in 1..6 : LowerLetters[k] = ToLower(c))
    ELSE 0 - 1

\* percent-decode: every %HH becomes the byte HH, anything else (a '%' not
\* followed by two hexadecimal digits included) stays.  A control byte is
\* shown as a tab, which like every control is forbidden in a host; the
\* inputs of this model use no escape above %7F
RECURSIVE PercentDecode(_)
PercentDecode(str) ==
    IF str = <<>> THEN <<>>
    ELSE IF /\ str[1] = "%"
            /\ Len(str) >= 3
            /\ HexVal(str[2]) >= 0
            /\ HexVal(str[3]) >= 0
    THEN LET byte == 16 * HexVal(str[2]) + HexVal(str[3])
         IN  <<IF byte \in 32..126 THEN AsciiPrintable[byte - 31] ELSE "\t">>
             \o PercentDecode(From(str, 4))
    ELSE <<str[1]>> \o PercentDecode(Tail(str))

\* the host of host[:port]
HostOf(hp) ==
    LET k == IndexOf(hp, <<":">>)
    IN  IF k = 0 THEN hp ELSE SubSeq(hp, 1, k - 1)

\* the port of host[:port], empty when there is none
PortOf(hp) ==
    LET k == IndexOf(hp, <<":">>)
    IN  IF k = 0 THEN <<>> ELSE From(hp, k + 1)

\* str without its leading zeros
RECURSIVE StripZeros(_)
StripZeros(str) ==
    IF str # <<>> /\ str[1] = "0" THEN StripZeros(Tail(str)) ELSE str

\* whether the digits are those of a number that is at most 65535
AtMost65535(digits) == Len(digits) <= 5 /\ ParseInt(digits) <= 65535

\* port state: digits, whose number is at most 65535
PortOk(port) ==
    /\ \A j \in DOMAIN port : IsDigit(port[j])
    /\ AtMost65535(StripZeros(port))

\* str in lower case
LowerCase(str) == [j \in DOMAIN str |-> ToLower(str[j])]

\* the domain a host of a special scheme is parsed to: percent-decoded and
\* lower-cased
Domain(host) == LowerCase(PercentDecode(host))

\* whether none of the code points of str is among the forbidden ones
NoneForbidden(str, forbidden) == \A j \in DOMAIN str : str[j] \notin forbidden

\* host and port states for a special scheme: a non-empty host whose domain
\* has no forbidden code point, optionally followed by ':' and a port
HostPortOk(hp) ==
    /\ HostOf(hp) # <<>>
    /\ NoneForbidden(Domain(HostOf(hp)), ForbiddenHostCodePoints)
    /\ PortOk(PortOf(hp))

\* host and port states for any other scheme: the host is opaque, may be
\* empty and may hold percent-escapes
OpaqueHostPortOk(hp) ==
    /\ NoneForbidden(HostOf(hp), ForbiddenHostCodePoints \ {"%"})
    /\ PortOk(PortOf(hp))

\* host[:port] of a URL with a special scheme
SpecialHostPort(s) ==
    AfterLastAt(Authority(SkipSlashes(From(s, SchemeEnd(s) + 1))))

\* the schemes whose URLs have a host from a domain ("file" is left out: no
\* input of this model uses it)
SpecialSchemes ==
    {<<"h","t","t","p">>, <<"h","t","t","p","s">>, <<"f","t","p">>,
     <<"w","s">>, <<"w","s","s">>}

\* a parsed URL
ParsedUrl(protocol, hostname) ==
    [kind |-> "return", protocol |-> protocol, hostname |-> hostname]

\* the TypeError of the URL constructor
UrlTypeError == [kind |-> "throw", error |-> "TypeError"]

\* new URL for an input s with a special scheme
SpecialUrl(s, hostport) ==
    IF HostPortOk(hostport)
    THEN ParsedUrl(UrlScheme(s) \o <<":">>, Domain(HostOf(hostport)))
    ELSE UrlTypeError

\* new URL for an input s with another scheme, of which rest follows the
\* colon: an authority after "//", no host otherwise
OpaqueUrl(s, rest, hostport) ==
    IF ~MatchesAt(rest, <<"/", "/">>, 1)
    THEN ParsedUrl(UrlScheme(s) \o <<":">>, <<>>)
    ELSE IF OpaqueHostPortOk(hostport)
    THEN ParsedUrl(UrlScheme(s) \o <<":">>, HostOf(hostport))
    ELSE UrlTypeError

\* new URL for the preprocessed input s
ParseUrlInput(s) ==
    IF SchemeEnd(s) = 0 THEN UrlTypeError
    ELSE IF UrlScheme(s) \in SpecialSchemes
    THEN SpecialUrl(s, SpecialHostPort(s))
    ELSE OpaqueUrl(s, From(s, SchemeEnd(s) + 1),
                   AfterLastAt(Authority(From(s, SchemeEnd(s) + 3))))

\* new URL(url): the parsed URL's protocol and hostname, or the TypeError
\* thrown
URL(url) == ParseUrlInput(UrlInput(url))

\* the return statement of isValidAbsoluteUrl
isHttpWithHost(parsedUrl) ==
    /\ parsedUrl.protocol \in {<<"h","t","t","p",":">>,
                                <<"h","t","t","p","s",":">>}
    /\ Len(parsedUrl.hostname) > 0

\* what a try block leaves when its body left outcome and its last
\* statement returns value
TryReturn(outcome, value) ==
    IF outcome.kind = "throw" THEN outcome
    ELSE [kind |-> "return", value |-> value]

\* the try block of isValidAbsoluteUrl
isValidAbsoluteUrlTry(url) == TryReturn(URL(url), isHttpWithHost(URL(url)))

\* catch (e) { return false }
CatchReturnFalse(tried) ==
    IF tried.kind = "throw" THEN [kind |-> "return", value |-> FALSE]
    ELSE tried

\* variant of isValidAbsoluteUrlCatch without the catch
isValidAbsoluteUrlCatch_rethrow(url) == isValidAbsoluteUrlTry(url)

\* RobustLinksV2.isValidAbsoluteUrl, try and catch: what the call returns
\* or throws
isValidAbsoluteUrlCatch(url) == CatchReturnFalse(isValidAbsoluteUrlTry(url))

\* RobustLinksV2.isValidAbsoluteUrl: the URL constructor does not throw, the
\* protocol is 'http:' or 'https:' and the hostname is non-empty
isValidAbsoluteUrl(url) == isValidAbsoluteUrlCatch(url).value

(***************************************************************************)
(* JavaScript Date.  A Date is modelled as [days, secs]: whole days since  *)
(* 1970-01-01 and seconds into that UTC day (milliseconds are always 0 in  *)
(* the values this code builds).                                           *)
(***************************************************************************)
\* days since 1970-01-01 of the proleptic Gregorian date y-m-d (m in 1..12)
DaysFromCivil(y, m, d) ==
    LET y2  == IF m <= 2 THEN y - 1 ELSE y
        era == y2 \div 400
        yoe == y2 - era * 400
        mp  == IF m > 2 THEN m - 3 ELSE m + 9
        doy == (153 * mp + 2) \div 5 + d - 1
        doe == yoe * 365 + yoe \div 4 - yoe \div 100 + doy
    IN  era * 146097 + doe - 719468

\* the proleptic Gregorian date of a day number, as [year, month, day]
CivilFromDays(z) ==
    LET z2  == z + 719468
        era == z2 \div 146097
        doe == z2 - era * 146097
        yoe == (doe - doe \div 1460 + doe \div 36524 - doe \div 146096) \div 365
        doy == doe - (365 * yoe + yoe \div 4 - yoe \div 100)
        mp  == (5 * doy + 2) \div 153
        d   == doy - (153 * mp + 2) \div 5 + 1
        m   == IF mp < 10 THEN mp + 3 ELSE mp - 9
        y   == yoe + era * 400
    IN  [year |-> IF m <= 2 THEN y + 1 ELSE y, month |-> m, day |-> d]

\* new Date(Date.UTC(year, month, date, hours, minutes, seconds)): the month
\* is 0-based, out-of-range fields carry over, and a year in 0..99 means
\* 1900 + year
DateUTC(year, month, date, hours, minutes, seconds) ==
    LET yr   == IF year >= 0 /\ year <= 99 THEN 1900 + year ELSE year
        ym   == yr + month \div 12
        mn   == month % 12
        day  == DaysFromCivil(ym, mn + 1, 1) + date - 1
        time == hours * 3600 + minutes * 60 + seconds
    IN  [days |-> day + time \div 86400, secs |-> time % 86400]

(***************************************************************************)
(* RobustLinksV2.parseDatetime                                             *)
(***************************************************************************)
\* \d{n} at positions k .. k+n-1 of s
DigitsAt(s, k, n) == \A j \in k..(k + n - 1) : IsDigit(s[j])

\* parseInt of the n characters of s starting at k
IntAt(s, k, n) == ParseInt(SubSeq(s, k, k + n - 1))

\* /^(\d{4})-(\d{2})-(\d{2})$/
isoDateMatch(s) ==
    /\ Len(s) = 10
    /\ DigitsAt(s, 1, 4) /\ s[5] = "-"
    /\ DigitsAt(s, 6, 2) /\ s[8] = "-"
    /\ DigitsAt(s, 9, 2)

\* /^(\d{4})-(\d{2})-(\d{2})T(\d{2}):(\d{2}):(\d{2})Z$/
isoDatetimeMatch(s) ==
    /\ Len(s) = 20
    /\ DigitsAt(s, 1, 4) /\ s[5] = "-"
    /\ DigitsAt(s, 6, 2) /\ s[8] = "-"
    /\ DigitsAt(s, 9, 2) /\ s[11] = "T"
    /\ DigitsAt(s, 12, 2) /\ s[14] = ":"
    /\ DigitsAt(s, 15, 2) /\ s[17] = ":"
    /\ DigitsAt(s, 18, 2) /\ s[20] = "Z"

\* /^(\d{4})(\d{2})(\d{2})$/
waDateMatch(s) == Len(s) = 8 /\ DigitsAt(s, 1, 8)

\* /^(\d{4})(\d{2})(\d{2})(\d{2})(\d{2})(\d{2})$/
waDatetimeMatch(s) == Len(s) = 14 /\ DigitsAt(s, 1, 14)

\* the Date of a datetime string, or Null when no format matches
parseDatetime(datetimeStr) ==
    IF isoDateMatch(datetimeStr)
    THEN DateUTC(IntAt(datetimeStr, 1, 4), IntAt(datetimeStr, 6, 2) - 1,
                 IntAt(datetimeStr, 9, 2), 12, 0, 0)
    ELSE IF isoDatetimeMatch(datetimeStr)
    THEN DateUTC(IntAt(datetimeStr, 1, 4), IntAt(datetimeStr, 6, 2) - 1,
                 IntAt(datetimeStr, 9, 2), IntAt(datetimeStr, 12, 2),
                 IntAt(datetimeStr, 15, 2), IntAt(datetimeStr, 18, 2))
    ELSE IF waDateMatch(datetimeStr)
    THEN DateUTC(IntAt(datetimeStr, 1, 4), IntAt(datetimeStr, 5, 2) - 1,
                 IntAt(datetimeStr, 7, 2), 12, 0, 0)
    ELSE IF waDatetimeMatch(datetimeStr)
    THEN DateUTC(IntAt(datetimeStr, 1, 4), IntAt(datetimeStr, 5, 2) - 1,
                 IntAt(datetimeStr, 7, 2), IntAt(datetimeStr, 9, 2),
                 IntAt(datetimeStr, 11, 2), IntAt(datetimeStr, 13, 2))
    ELSE Null

(***************************************************************************)
(* RobustLinksV2.formatDateTime                                            *)
(***************************************************************************)
\* `${year}${month}${day}${hours}${minutes}${seconds}` of the UTC fields; the
\* year is not padded
formatDateTime(date) ==
    LET c == CivilFromDays(date.days)
    IN  NumToStr(c.year) \o PadStart2(c.month) \o PadStart2(c.day)
        \o PadStart2(date.secs \div 3600)
        \o PadStart2((date.secs % 3600) \div 60)
        \o PadStart2(date.secs % 60)

(***************************************************************************)
(* Date.prototype.toISOString and the date-only form written back to       *)
(* data-versiondate.                                                       *)
(***************************************************************************)
\* String.prototype.padStart(n, '0')
RECURSIVE PadStart(_, _)
PadStart(str, n) == IF Len(str) >= n THEN str ELSE PadStart(<<"0">> \o str, n)

\* the year of toISOString: four digits for the years 0 to 9999, a sign and
\* six digits beyond (the dates of this model have no negative year)
IsoYear(year) ==
    IF year <= 9999 THEN PadStart(NumToStr(year), 4)
    ELSE <<"+">> \o PadStart(NumToStr(year), 6)

\* Date.prototype.toISOString: YYYY-MM-DDTHH:mm:ss.sssZ
toISOString(date) ==
    LET c == CivilFromDays(date.days)
    IN  IsoYear(c.year) \o <<"-">> \o PadStart2(c.month) \o <<"-">>
        \o PadStart2(c.day) \o <<"T">>
        \o PadStart2(date.secs \div 3600) \o <<":">>
        \o PadStart2((date.secs % 3600) \div 60) \o <<":">>
        \o PadStart2(date.secs % 60) \o <<".", "0", "0", "0", "Z">>

\* versionDate.toISOString().split('T')[0]
versionDateAttr(versionDate) == SplitOn(toISOString(versionDate), "T")[1]

(***************************************************************************)
(* RobustLinksV2.parseVersionUrl                                           *)
(***************************************************************************)
\* variant of splitParts that forgets to filter out the empty pieces
splitParts_keepEmpty(versionUrlString) == SplitOn(versionUrlString, " ")

\* versionUrlString.split(' ').filter(part => part.length > 0)
splitParts(versionUrlString) ==
    SelectSeq(SplitOn(versionUrlString, " "), LAMBDA part : Len(part) > 0)

\* parts[k] with JavaScript's 0-based index k: undefined beyond the end
PartAt(parts, k) == IF k + 1 <= Len(parts) THEN parts[k + 1] ELSE Undefined

\* variant of isDatetime that takes no token for a datetime
isDatetime_never(nextPart) == FALSE

\* variant of isDatetime that takes any following token for a datetime
isDatetime_anyToken(nextPart) == ~IsFalsy(nextPart)

\* isDatetime: nextPart && RobustLinksV2.parseDatetime(nextPart) !== null
isDatetime(nextPart) == ~IsFalsy(nextPart) /\ parseDatetime(nextPart) # Null

\* variant of Consumed that steps over one token more after a datetime
Consumed_three(hasDatetime) == IF hasDatetime THEN 3 ELSE 1

\* variant of Consumed that never steps over the datetime token
Consumed_one(hasDatetime) == 1

\* the number of tokens one iteration consumes after pushing a snapshot
Consumed(hasDatetime) == IF hasDatetime THEN 2 ELSE 1

\* the while loop, from index i (0-based) with the snapshots pushed and the
\* tokens warned about so far
RECURSIVE scanParts(_, _, _, _)
scanParts(parts, i, snapshots, warned) ==
    IF ~(i < Len(parts)) THEN [snapshots |-> snapshots, warned |-> warned]
    ELSE LET uri      == PartAt(parts, i)
             nextPart == PartAt(parts, i + 1)
         IN  IF ~isValidAbsoluteUrl(uri)
             THEN scanParts(parts, i + 1, snapshots, Append(warned, uri))
             ELSE IF isDatetime(nextPart)
             THEN scanParts(parts, i + Consumed(TRUE),
                            Append(snapshots,
                                   [uri |-> uri, datetime |-> nextPart]),
                            warned)
             ELSE scanParts(parts, i + Consumed(FALSE),
                            Append(snapshots, [uri |-> uri]), warned)

\* one iteration of the while loop at index i (0-based): the index, the
\* snapshots and the tokens warned about after it
loopBody(parts, i, snapshots, warned) ==
    IF ~isValidAbsoluteUrl(PartAt(parts, i))
    THEN [i |-> i + 1, snapshots |-> snapshots,
          warned |-> Append(warned, PartAt(parts, i))]
    ELSE IF isDatetime(PartAt(parts, i + 1))
    THEN [i |-> i + Consumed(TRUE),
          snapshots |-> Append(snapshots,
                               [uri      |-> PartAt(parts, i),
                                datetime |-> PartAt(parts, i + 1)]),
          warned |-> warned]
    ELSE [i |-> i + Consumed(FALSE),
          snapshots |-> Append(snapshots, [uri |-> PartAt(parts, i)]),
          warned |-> warned]

\* the snapshots returned and the tokens passed to console.warn
parseVersionUrl(versionUrlString) ==
    IF IsFalsy(versionUrlString)
    THEN [snapshots |-> <<>>, warned |-> <<>>]
    ELSE scanParts(splitParts(versionUrlString), 0, <<>>, <<>>)

(***************************************************************************)
(* RobustLinksV2.parseRobustLink                                           *)
(***************************************************************************)
\* a thrown Error, named by the check that threw it
Throw(error, warned) == [kind |-> "throw", error |-> error, warned |-> warned]

\* a returned value
Return(value, warned) == [kind |-> "return", value |-> value, warned |-> warned]

\* variant of defaultOriginalUrl that lets href replace a supplied value
defaultOriginalUrl_always(href, originalUrl) ==
    IF ~IsFalsy(href) THEN href ELSE originalUrl

\* variant of defaultOriginalUrl without the default
defaultOriginalUrl_never(href, originalUrl) == originalUrl

\* if (!originalUrl && href) originalUrl = href
defaultOriginalUrl(href, originalUrl) ==
    IF IsFalsy(originalUrl) /\ ~IsFalsy(href) THEN href ELSE originalUrl

\* variant of versionDateMissing without the check
versionDateMissing_never(versionDateStr) == FALSE

\* if (!versionDateStr) throw
versionDateMissing(versionDateStr) == IsFalsy(versionDateStr)

\* variant of firstFailure that validates the URIs before it looks for the
\* version date
firstFailure_invalidFirst(href, originalUrl, versionDateStr) ==
    IF IsFalsy(href) THEN "MissingHref"
    ELSE IF IsFalsy(originalUrl) THEN "MissingOriginalUrl"
    ELSE IF ~isValidAbsoluteUrl(href) THEN "InvalidHref"
    ELSE IF ~isValidAbsoluteUrl(originalUrl) THEN "InvalidOriginalUrl"
    ELSE IF versionDateMissing(versionDateStr) THEN "MissingVersionDate"
    ELSE IF parseDatetime(versionDateStr) = Null THEN "InvalidVersionDate"
    ELSE "none"

\* variant of firstFailure that does not validate originalUrl
firstFailure_noOriginalCheck(href, originalUrl, versionDateStr) ==
    IF IsFalsy(href) THEN "MissingHref"
    ELSE IF IsFalsy(originalUrl) THEN "MissingOriginalUrl"
    ELSE IF versionDateMissing(versionDateStr) THEN "MissingVersionDate"
    ELSE IF ~isValidAbsoluteUrl(href) THEN "InvalidHref"
    ELSE IF parseDatetime(versionDateStr) = Null THEN "InvalidVersionDate"
    ELSE "none"

\* the first failing check, in the order of the throw statements, or "none"
firstFailure(href, originalUrl, versionDateStr) ==
    IF IsFalsy(href) THEN "MissingHref"
    ELSE IF IsFalsy(originalUrl) THEN "MissingOriginalUrl"
    ELSE IF versionDateMissing(versionDateStr) THEN "MissingVersionDate"
    ELSE IF ~isValidAbsoluteUrl(href) THEN "InvalidHref"
    ELSE IF ~isValidAbsoluteUrl(originalUrl) THEN "InvalidOriginalUrl"
    ELSE IF parseDatetime(versionDateStr) = Null THEN "InvalidVersionDate"
    ELSE "none"

\* variant of buildRecord that fails when a snapshot token was skipped
buildRecord_strict(href, originalUrl, versionDateStr, parsed, linkText) ==
    IF parsed.warned # <<>> THEN Throw("InvalidVersionUrl", parsed.warned)
    ELSE Return([href             |-> href,
                 originalUrl      |-> originalUrl,
                 versionDate      |-> parseDatetime(versionDateStr),
                 versionSnapshots |-> parsed.snapshots,
                 linkText         |-> linkText],
                parsed.warned)

\* the record built once every check has passed; parseVersionUrl has no way
\* to make the call fail
buildRecord(href, originalUrl, versionDateStr, parsed, linkText) ==
    Return([href             |-> href,
            originalUrl      |-> originalUrl,
            versionDate      |-> parseDatetime(versionDateStr),
            versionSnapshots |-> parsed.snapshots,
            linkText         |-> linkText],
           parsed.warned)

parseRobustLink(rawAttributes, defaultLinkText) ==
    LET href           == rawAttributes.href
        originalUrl    == defaultOriginalUrl(href, rawAttributes.originalurl)
        versionDateStr == rawAttributes.versiondate
        failure        == firstFailure(href, originalUrl, versionDateStr)
    IN  IF failure # "none" THEN Throw(failure, <<>>)
        ELSE buildRecord(href, originalUrl, versionDateStr,
                         parseVersionUrl(rawAttributes.versionurl),
                         defaultLinkText)

(***************************************************************************)
(* RobustLinksV2.createMementoUri                                          *)
(***************************************************************************)
\* GetSubstitution for a string pattern (no captures): in the replacement
\* text "$$" is "$", "$&" the matched text, "$`" the text before the match
\* and "$'" the text after it; any other "$" stays as it is
RECURSIVE GetSubstitution(_, _, _, _)
GetSubstitution(replacement, matched, before, after) ==
    IF replacement = <<>> THEN <<>>
    ELSE IF replacement[1] = "$" /\ Len(replacement) >= 2
            /\ replacement[2] \in {"$", "&", "U+0060", "'"}
    THEN (CASE replacement[2] = "$" -> <<"$">>
            [] replacement[2] = "&" -> matched
            [] replacement[2] = "U+0060" -> before
            [] replacement[2] = "'" -> after)
         \o GetSubstitution(From(replacement, 3), matched, before, after)
    ELSE <<replacement[1]>>
         \o GetSubstitution(Tail(replacement), matched, before, after)

\* String.prototype.replace(pattern, replacement) with a string pattern: the
\* first occurrence only
Replace(str, pattern, replacement) ==
    LET k == IndexOf(str, pattern)
    IN  IF k = 0 THEN str
        ELSE LET before == SubSeq(str, 1, k - 1)
                 after  == From(str, k + Len(pattern))
             IN  before
                 \o GetSubstitution(replacement, pattern, before, after)
                 \o after

DatetimePlaceholder == <<"<","d","a","t","e","t","i","m","e",">">>

UrirPlaceholder == <<"<","u","r","i","r",">">>

\* variant of originalUrlRejected that validates only when a datetime is given
originalUrlRejected_onlyWithDate(originalUrl, dateTime) ==
    dateTime # NoDate /\ ~isValidAbsoluteUrl(originalUrl)

\* the check at the top of createMementoUri
originalUrlRejected(originalUrl, dateTime) == ~isValidAbsoluteUrl(originalUrl)

\* variant of createMementoUri that expands the template even without a
\* datetime, with an empty datetime segment
createMementoUri_templateAlways(pattern, gate, originalUrl, dateTime) ==
    IF originalUrlRejected(originalUrl, dateTime)
    THEN Throw("InvalidOriginalUrl", <<>>)
    ELSE Return(Replace(Replace(pattern, DatetimePlaceholder,
                                IF dateTime # NoDate
                                THEN formatDateTime(dateTime) ELSE <<>>),
                        UrirPlaceholder, originalUrl),
                <<>>)

\* createMementoUri of an instance configured with pattern and gate
createMementoUri(pattern, gate, originalUrl, dateTime) ==
    IF originalUrlRejected(originalUrl, dateTime)
    THEN Throw("InvalidOriginalUrl", <<>>)
    ELSE IF dateTime # NoDate
    THEN Return(Replace(Replace(pattern, DatetimePlaceholder,
                                formatDateTime(dateTime)),
                        UrirPlaceholder, originalUrl),
                <<>>)
    ELSE Return(gate \o originalUrl, <<>>)

(***************************************************************************)
(* RobustLinksV2.createRobustLinkHtml and the data-versionurl value that   *)
(* it and updateAnchorToRobustLink write.                                  *)
(***************************************************************************)
\* a property of a JavaScript object, undefined when it has none of that name
Get(object, name) == IF name \in DOMAIN object THEN object[name] ELSE Undefined

\* variant of snapshotPart that re-renders the datetime as 14 digits
snapshotPart_reformatted(s) ==
    IF ~IsFalsy(Get(s, "datetime"))
    THEN s.uri \o <<" ">>
         \o (IF parseDatetime(s.datetime) = Null THEN s.datetime
             ELSE formatDateTime(parseDatetime(s.datetime)))
    ELSE s.uri

\* `${s.uri}${s.datetime ? ` ${s.datetime}` : ''}`
snapshotPart(s) ==
    IF ~IsFalsy(Get(s, "datetime")) THEN s.uri \o <<" ">> \o s.datetime
    ELSE s.uri

\* versionSnapshots.map(...).join(' ')
snapshotParts(versionSnapshots) ==
    Join([k \in DOMAIN versionSnapshots |-> snapshotPart(versionSnapshots[k])],
         <<" ">>)

\* object.versionSnapshots && object.versionSnapshots.length > 0; an object
\* without the optional property has no field of that name
hasSnapshots(object) ==
    "versionSnapshots" \in DOMAIN object /\ Len(object.versionSnapshots) > 0

\* "<a href=""
HtmlHref ==
    <<"<","a"," ","h","r","e","f","=","\"">>

\* "" data-originalurl=""
HtmlOriginalUrl ==
    <<"\""," ","d","a","t","a","-","o","r","i","g","i","n","a","l","u","r",
      "l","=","\"">>

\* "" data-versiondate=""
HtmlVersionDate ==
    <<"\""," ","d","a","t","a","-","v","e","r","s","i","o","n","d","a","t",
      "e","=","\"">>

\* " data-versionurl=""
HtmlVersionUrl ==
    <<" ","d","a","t","a","-","v","e","r","s","i","o","n","u","r","l","=",
      "\"">>

\* """
HtmlQuote ==
    <<"\"">>

\* "</a>"
HtmlClose ==
    <<"<","/","a",">">>

\* the <a> tag of a ParsedRobustLink
createRobustLinkHtml(parsedLink) ==
    LET versionUrlAttr ==
            IF hasSnapshots(parsedLink)
            THEN HtmlVersionUrl \o snapshotParts(parsedLink.versionSnapshots)
                 \o HtmlQuote
            ELSE <<>>
        linkText ==
            IF ~IsFalsy(parsedLink.linkText) THEN parsedLink.linkText
            ELSE parsedLink.href
    IN  HtmlHref \o parsedLink.href \o HtmlOriginalUrl
        \o parsedLink.originalUrl \o HtmlVersionDate
        \o versionDateAttr(parsedLink.versionDate) \o HtmlQuote
        \o versionUrlAttr \o <<">">> \o linkText \o HtmlClose

(***************************************************************************)
(* RegExp.  A pattern is read as a sequence of atoms: the assertion ^, or  *)
(* a set of characters (a literal, an escaped character, a class [...] or  *)
(* the dot) with the least and the most number of repetitions (?, +, *,    *)
(* {n}); most = -1 stands for no limit.  Groups and alternatives are not   *)
(* modelled: no pattern of the code or of this model uses them.            *)
(***************************************************************************)
(* The page: elements with a tag, classes and attributes.  An anchor that   *)
(* has a dropdown carries the two links of its menu.                        *)
(***************************************************************************)
\* the attributes the code reads and writes; dataset.hasRobustDropdown is
\* the attribute data-has-robust-dropdown
AttributeNames ==
    {"href", "data-originalurl", "data-versiondate", "data-versionurl",
     "data-has-robust-dropdown"}

\* element.setAttribute(name, value)
setAttribute(element, name, value) ==
    [element EXCEPT !.attributes[name] = value]

\* element.removeAttribute(name)
removeAttribute(element, name) ==
    [element EXCEPT !.attributes[name] = Undefined]

\* anchorElement instanceof HTMLAnchorElement, for null or an element
isAnchorElement(anchorElement) ==
    anchorElement # Null /\ anchorElement.tag = "a"

\* options.versionDate instanceof Date && !isNaN(options.versionDate.getTime())
isValidDate(versionDate) == "days" \in DOMAIN versionDate

\* _attachDropdownToLink: the anchor is wrapped, gets the menu with the
\* links to the original URL and to the latest archived version, and the
\* class robust-link-with-dropdown
attachDropdownToLink(pattern, gate, anchorElement, originalUrl) ==
    [anchorElement EXCEPT
        !.dropdowns = Append(@, [current |-> originalUrl,
                                 archive |-> createMementoUri(
                                     pattern, gate, originalUrl, NoDate).value]),
        !.classes = @ \cup {"robust-link-with-dropdown"}]

\* variant of withDropdown that does not look at the mark
withDropdown_unmarked(dropdown, pattern, gate, anchorElement, options) ==
    IF dropdown
    THEN setAttribute(attachDropdownToLink(pattern, gate, anchorElement,
                                           options.originalUrl),
                      "data-has-robust-dropdown", <<"t","r","u","e">>)
    ELSE anchorElement

\* if (this.enableDropdown && !anchorElement.dataset.hasRobustDropdown):
\* the dropdown is attached and the anchor marked
withDropdown(dropdown, pattern, gate, anchorElement, options) ==
    IF /\ dropdown
       /\ IsFalsy(anchorElement.attributes["data-has-robust-dropdown"])
    THEN setAttribute(attachDropdownToLink(pattern, gate, anchorElement,
                                           options.originalUrl),
                      "data-has-robust-dropdown", <<"t","r","u","e">>)
    ELSE anchorElement

\* data-originalurl and data-versiondate are set
withVersionDate(anchorElement, options) ==
    setAttribute(setAttribute(anchorElement, "data-originalurl",
                              options.originalUrl),
                 "data-versiondate", versionDateAttr(options.versionDate))

\* variant of withVersionUrl that leaves the attribute alone when there are
\* no snapshots
withVersionUrl_keepsOld(anchorElement, options) ==
    IF hasSnapshots(options)
    THEN setAttribute(anchorElement, "data-versionurl",
                      snapshotParts(options.versionSnapshots))
    ELSE anchorElement

\* data-versionurl is set when there are snapshots and removed otherwise
withVersionUrl(anchorElement, options) ==
    IF hasSnapshots(options)
    THEN setAttribute(anchorElement, "data-versionurl",
                      snapshotParts(options.versionSnapshots))
    ELSE removeAttribute(anchorElement, "data-versionurl")

\* href is set when newHref is given and valid
\* variant of the href step that takes any newHref given
withNewHref_unchecked(anchorElement, options) ==
    IF ~IsFalsy(Get(options, "newHref"))
    THEN setAttribute(anchorElement, "href", options.newHref)
    ELSE anchorElement

withNewHref(anchorElement, options) ==
    IF /\ ~IsFalsy(Get(options, "newHref"))
       /\ isValidAbsoluteUrl(options.newHref)
    THEN setAttribute(anchorElement, "href", options.newHref)
    ELSE anchorElement

\* updateAnchorToRobustLink after its checks
updateAttributes(dropdown, pattern, gate, anchorElement, options) ==
    withNewHref(
        withVersionUrl(
            withVersionDate(
                withDropdown(dropdown, pattern, gate, anchorElement, options),
                options),
            options),
        options)

\* what updateAnchorToRobustLink leaves: it returned or threw, and the
\* anchor as it is then
Updated(anchorElement) ==
    [kind |-> "return", anchorElement |-> anchorElement]

Failed(error, anchorElement) ==
    [kind |-> "throw", error |-> error, anchorElement |-> anchorElement]

\* variant of updateAnchorToRobustLink that writes data-originalurl before
\* it looks at versionDate
updateAnchorToRobustLink_lateCheck(dropdown, pattern, gate, anchorElement, options) ==
    IF ~isAnchorElement(anchorElement)
    THEN Failed("InvalidAnchorElement", anchorElement)
    ELSE IF ~isValidAbsoluteUrl(options.originalUrl)
    THEN Failed("InvalidOriginalUrl", anchorElement)
    ELSE IF ~isValidDate(options.versionDate)
    THEN Failed("InvalidVersionDate",
                setAttribute(anchorElement, "data-originalurl",
                             options.originalUrl))
    ELSE Updated(updateAttributes(dropdown, pattern, gate, anchorElement,
                                  options))

\* RobustLinksV2.updateAnchorToRobustLink(anchorElement, options)
updateAnchorToRobustLink(dropdown, pattern, gate, anchorElement, options) ==
    IF ~isAnchorElement(anchorElement)
    THEN Failed("InvalidAnchorElement", anchorElement)
    ELSE IF ~isValidAbsoluteUrl(options.originalUrl)
    THEN Failed("InvalidOriginalUrl", anchorElement)
    ELSE IF ~isValidDate(options.versionDate)
    THEN Failed("InvalidVersionDate", anchorElement)
    ELSE Updated(updateAttributes(dropdown, pattern, gate, anchorElement,
                                  options))

\* ".link"
SelectorLink ==
    <<".","l","i","n","k">>

\* ".link:not([data-originalurl])"
SelectorNotRobust ==
    <<".","l","i","n","k",":","n","o","t","(","[","d","a","t","a","-","o","r","i","g","i","n","a","l","u","r","l","]",")">>

\* "a:not([data-originalurl])", the selector of the auto-initialisation
SelectorAutoInit ==
    <<"a",":","n","o","t","(","[","d","a","t","a","-","o","r","i","g","i","n","a","l","u","r","l","]",")">>

\* element.matches(selector), for the selectors above
matches(element, selector) ==
    /\ IF selector = SelectorAutoInit
       THEN element.tag = "a"
       ELSE "link" \in element.classes
    /\ selector \in {SelectorNotRobust, SelectorAutoInit}
          => element.attributes["data-originalurl"] = Undefined

\* scope.querySelectorAll(selector): the positions in the page of the
\* elements that match, in document order
querySelectorAll(page, selector) ==
    SelectSeq([k \in DOMAIN page |-> k],
              LAMBDA k : matches(page[k], selector))

\* what the loop of makeAllLinksRobust has done so far: the page, the
\* positions pushed on updatedLinks and the errors written to the console
Loop(page, updatedLinks, errors) ==
    [page |-> page, updatedLinks |-> updatedLinks, errors |-> errors]

\* the end of the try block and the catch of makeAllLinksRobust: an updated
\* anchor is pushed, an error is written to the console
pushOrReport(loop, anchor, update) ==
    IF update.kind = "throw"
    THEN [loop EXCEPT !.errors = Append(@, [anchor |-> anchor,
                                            error  |-> update.error])]
    ELSE [loop EXCEPT !.page[anchor] = update.anchorElement,
                      !.updatedLinks = Append(@, anchor)]

\* variant of the callback with one try around the whole forEach: after
\* the first exception no further element is processed
forAnchor_outerTry(dropdown, pattern, gate, loop, anchor, linkData) ==
    IF loop.errors # <<>> THEN loop
    ELSE IF "throws" \in DOMAIN linkData
    THEN [loop EXCEPT !.errors = Append(@, [anchor |-> anchor,
                                            error  |-> "dataProducer"])]
    ELSE IF linkData = Null THEN loop
    ELSE pushOrReport(loop, anchor,
                      updateAnchorToRobustLink(dropdown, pattern, gate,
                                               loop.page[anchor], linkData))

\* the callback of anchorElements.forEach for one element: the data
\* producer is asked (linkData is what it does); without data the element
\* is skipped, with data it is updated
forAnchor(dropdown, pattern, gate, loop, anchor, linkData) ==
    IF "throws" \in DOMAIN linkData
    THEN [loop EXCEPT !.errors = Append(@, [anchor |-> anchor,
                                            error  |-> "dataProducer"])]
    ELSE IF linkData = Null THEN loop
    ELSE pushOrReport(loop, anchor,
                      updateAnchorToRobustLink(dropdown, pattern, gate,
                                               loop.page[anchor], linkData))

\* anchorElements.forEach(...) of makeAllLinksRobust
RECURSIVE forEachAnchor(_, _, _, _, _, _)
forEachAnchor(dropdown, pattern, gate, anchorElements, dataProducer, loop) ==
    IF anchorElements = <<>> THEN loop
    ELSE forEachAnchor(dropdown, pattern, gate, Tail(anchorElements),
                       dataProducer,
                       forAnchor(dropdown, pattern, gate, loop,
                                 anchorElements[1],
                                 dataProducer[anchorElements[1]]))

\* RobustLinksV2.makeAllLinksRobust(selector, dataProducer): the page as it
\* is left, the anchors returned and the errors written to the console
makeAllLinksRobust(dropdown, pattern, gate, page, selector, dataProducer) ==
    forEachAnchor(dropdown, pattern, gate, querySelectorAll(page, selector),
                  dataProducer, Loop(page, <<>>, <<>>))

(***************************************************************************)
\* the characters a class range a-b is taken over, in code point order
Alphabet == Digits \o UpperLetters \o LowerLetters

CharRange(a, b) ==
    LET pos(c) == CHOOSE k \in DOMAIN Alphabet : Alphabet[k] = c
    IN  {Alphabet[k] : k \in pos(a)..pos(b)}

\* the class whose first item is at position k of src (after the '['): its
\* characters and the position after the closing ']'
RECURSIVE ClassItems(_, _, _)
ClassItems(src, k, chars) ==
    IF k > Len(src) THEN [error |-> TRUE]
    ELSE IF src[k] = "]"
    THEN [error |-> FALSE, chars |-> chars, next |-> k + 1]
    ELSE IF k + 2 <= Len(src) /\ src[k + 1] = "-" /\ src[k + 2] # "]"
    THEN ClassItems(src, k + 3, chars \cup CharRange(src[k], src[k + 2]))
    ELSE ClassItems(src, k + 1, chars \cup {src[k]})

\* the quantifier at position k of src, if there is one, and the position
\* after it
Quantifier(src, k) ==
    IF k > Len(src) THEN [min |-> 1, max |-> 1, next |-> k]
    ELSE IF src[k] = "?" THEN [min |-> 0, max |-> 1, next |-> k + 1]
    ELSE IF src[k] = "+" THEN [min |-> 1, max |-> 0 - 1, next |-> k + 1]
    ELSE IF src[k] = "*" THEN [min |-> 0, max |-> 0 - 1, next |-> k + 1]
    ELSE IF src[k] = "{"
    THEN LET close == IndexFrom(src, <<"}">>, k)
             count == SubSeq(src, k + 1, close - 1)
         IN  IF close > k + 1 /\ \A j \in DOMAIN count : IsDigit(count[j])
             THEN [min |-> ParseInt(count), max |-> ParseInt(count),
                   next |-> close + 1]
             ELSE [min |-> 1, max |-> 1, next |-> k]
    ELSE [min |-> 1, max |-> 1, next |-> k]

\* the term for a pattern that is a SyntaxError
ErrorTerm(src) == [term |-> [kind |-> "error"], next |-> Len(src) + 1]

\* an atom with the quantifier q that follows it
AtomTerm(atom, q) ==
    [term |-> [atom |-> atom, min |-> q.min, max |-> q.max], next |-> q.next]

\* the atom for the characters chars
SetAtom(chars) == [kind |-> "set", chars |-> chars]

\* the term for the class [...] read as class
ClassTerm(src, class) ==
    IF class.error THEN ErrorTerm(src)
    ELSE AtomTerm(SetAtom(class.chars), Quantifier(src, class.next))

\* the term that begins with the character c at position k of src
TermOf(src, k, c) ==
    IF c = "^" THEN [term |-> [kind |-> "start"], next |-> k + 1]
    ELSE IF c \in {"?", "+", "*"} \/ (c = "\\" /\ k = Len(src))
    THEN ErrorTerm(src)
    ELSE IF c = "[" THEN ClassTerm(src, ClassItems(src, k + 1, {}))
    ELSE IF c = "\\"
    THEN AtomTerm(SetAtom({src[k + 1]}), Quantifier(src, k + 2))
    ELSE AtomTerm(IF c = "." THEN [kind |-> "any"] ELSE SetAtom({c}),
                  Quantifier(src, k + 1))

\* the term of the pattern that begins at position k of src (the assertion
\* ^, or an atom with its quantifier), and the position after it; where the
\* pattern is a SyntaxError the term is of kind "error"
TermAt(src, k) == TermOf(src, k, src[k])

\* the terms of the pattern src from position k on
RECURSIVE ParseRegex(_, _)
ParseRegex(src, k) ==
    IF k > Len(src) THEN <<>>
    ELSE <<TermAt(src, k).term>> \o ParseRegex(src, TermAt(src, k).next)

\* whether one of the terms is of kind "error"
HasErrorTerm(atoms) ==
    \E j \in DOMAIN atoms : "kind" \in DOMAIN atoms[j]
                              /\ atoms[j].kind = "error"

\* whether new RegExp(src) throws
IsSyntaxError(src) == HasErrorTerm(ParseRegex(src, 1))

\* whether the character c is one an atom stands for
CharMatches(atom, c, ignoreCase) ==
    IF atom.kind = "any" THEN c \notin {"\n", "\r"}
    ELSE IF ignoreCase THEN \E x \in atom.chars : ToLower(x) = ToLower(c)
    ELSE c \in atom.chars

\* the positions at which a match of the atoms i, i+1, ... that begins at
\* position k of str can end (the position after its last character)
RECURSIVE MatchEnds(_, _, _, _, _)
MatchEnds(atoms, i, str, k, ignoreCase) ==
    IF i > Len(atoms) THEN {k}
    ELSE IF "kind" \in DOMAIN atoms[i]
    THEN IF k = 1 THEN MatchEnds(atoms, i + 1, str, k, ignoreCase) ELSE {}
    ELSE LET most  == IF atoms[i].max < 0 THEN Len(str) - k + 1
                      ELSE IF atoms[i].max < Len(str) - k + 1
                      THEN atoms[i].max
                      ELSE Len(str) - k + 1
             fits  == {n \in atoms[i].min..most :
                         \A j \in 0..(n - 1) :
                            CharMatches(atoms[i].atom, str[k + j], ignoreCase)}
         IN  UNION {MatchEnds(atoms, i + 1, str, k + n, ignoreCase) :
                       n \in fits}

\* the largest element of a non-empty set of positions
Max(positions) == CHOOSE k \in positions : \A m \in positions : m <= k

\* the smallest element of a non-empty set of positions
Min(positions) == CHOOSE k \in positions : \A m \in positions : k <= m

\* variant of RegExpFlags with the global flag
RegExpFlags_global == {"g", "i"}

\* the flags the patterns are compiled with: 'i'
RegExpFlags == {"i"}

\* new RegExp(src, flags)
RegExp(src, flags) == [source |-> src, flags |-> flags, lastIndex |-> 0]

\* the positions after from at which a match of atoms in str begins
MatchStarts(atoms, str, from, ignoreCase) ==
    {k \in (from + 1)..(Len(str) + 1) :
        MatchEnds(atoms, 1, str, k, ignoreCase) # {}}

\* what test answers and leaves in lastIndex when the matches of atoms in
\* str begin at starts
TestResult(regex, atoms, str, starts) ==
    [found     |-> starts # {},
     lastIndex |-> IF "g" \notin regex.flags THEN regex.lastIndex
                   ELSE IF starts = {} THEN 0
                   ELSE Max(MatchEnds(atoms, 1, str, Min(starts),
                                      "i" \in regex.flags)) - 1]

\* test for a regex whose source reads as atoms
TestAtoms(regex, atoms, str) ==
    TestResult(regex, atoms, str,
               MatchStarts(atoms, str,
                           IF "g" \in regex.flags THEN regex.lastIndex ELSE 0,
                           "i" \in regex.flags))

\* RegExp.prototype.test: whether str has a match, and the lastIndex the
\* object is left with.  Without the flag g the search begins at 0 and
\* leaves lastIndex alone; with it the search begins at lastIndex, which
\* is then set to the end of the match, or to 0 when there is none
RegExpTest(regex, str) == TestAtoms(regex, ParseRegex(regex.source, 1), str)

\* the position of the first of tests that found a match, 0 if none did
FirstFound(tests) ==
    IF \E k \in DOMAIN tests : tests[k].found
    THEN Min({k \in DOMAIN tests : tests[k].found})
    ELSE 0

\* what some returns and leaves when regex.test answers tests and the
\* first to find a match is at position first: the regexes after it are
\* not tested
SomeResult(regexes, tests, first) ==
    [value   |-> first # 0,
     regexes |-> [k \in DOMAIN regexes |->
                     IF first = 0 \/ k <= first
                     THEN [regexes[k] EXCEPT !.lastIndex = tests[k].lastIndex]
                     ELSE regexes[k]]]

\* some, given what regex.test does for each of the regexes
SomeTested(regexes, tests) == SomeResult(regexes, tests, FirstFound(tests))

\* regexes.some(regex => regex.test(url)): the value, and the regexes as
\* the tests leave them; the regexes after the first that matches are not
\* tested
someTest(regexes, url) ==
    SomeTested(regexes,
               [k \in DOMAIN regexes |-> RegExpTest(regexes[k], url)])

(***************************************************************************)
(* exclusions.isKnownArchive and RobustLinksV2.isArchiveUrl: with the      *)
(* patterns written into the method (src/robustlinks2.ts) and with the     *)
(* patterns loaded and compiled after construction (src/unnamed/part_000). *)
(***************************************************************************)
\* the archivePatterns of isKnownArchive
ArchivePatterns ==
    <<
     \* https?://web.archive.org/web/
     <<"h","t","t","p","s","?",":","/","/","w","e","b",".","a","r","c","h",
       "i","v","e",".","o","r","g","/","w","e","b","/">>,
     \* https?://web.archive.bibalex.org/web/
     <<"h","t","t","p","s","?",":","/","/","w","e","b",".","a","r","c","h",
       "i","v","e",".","b","i","b","a","l","e","x",".","o","r","g","/","w",
       "e","b","/">>,
     \* https?://www.webarchive.org.uk/wayback/en/archive/
     <<"h","t","t","p","s","?",":","/","/","w","w","w",".","w","e","b","a",
       "r","c","h","i","v","e",".","o","r","g",".","u","k","/","w","a","y",
       "b","a","c","k","/","e","n","/","a","r","c","h","i","v","e","/">>,
     \* https?://langzeitarchivierung.bib-bvb.de/wayback/
     <<"h","t","t","p","s","?",":","/","/","l","a","n","g","z","e","i","t",
       "a","r","c","h","i","v","i","e","r","u","n","g",".","b","i","b","-",
       "b","v","b",".","d","e","/","w","a","y","b","a","c","k","/">>,
     \* https?://webcitation.org/
     <<"h","t","t","p","s","?",":","/","/","w","e","b","c","i","t","a","t",
       "i","o","n",".","o","r","g","/">>,
     \* https?://webarchive.loc.gov/all/
     <<"h","t","t","p","s","?",":","/","/","w","e","b","a","r","c","h","i",
       "v","e",".","l","o","c",".","g","o","v","/","a","l","l","/">>,
     \* https?://wayback.archive-it.org/all/
     <<"h","t","t","p","s","?",":","/","/","w","a","y","b","a","c","k",".",
       "a","r","c","h","i","v","e","-","i","t",".","o","r","g","/","a","l",
       "l","/">>,
     \* https?://wayback.archive-it.org/[0-9]+/
     <<"h","t","t","p","s","?",":","/","/","w","a","y","b","a","c","k",".",
       "a","r","c","h","i","v","e","-","i","t",".","o","r","g","/","[","0",
       "-","9","]","+","/">>,
     \* https?://webarchive.parliament.uk/[0-9]+/
     <<"h","t","t","p","s","?",":","/","/","w","e","b","a","r","c","h","i",
       "v","e",".","p","a","r","l","i","a","m","e","n","t",".","u","k","/",
       "[","0","-","9","]","+","/">>,
     \* https?://webarchive.parliament.uk/[0-9]+tf_/
     <<"h","t","t","p","s","?",":","/","/","w","e","b","a","r","c","h","i",
       "v","e",".","p","a","r","l","i","a","m","e","n","t",".","u","k","/",
       "[","0","-","9","]","+","t","f","_","/">>,
     \* https?://webarchive.nationalarchives.gov.uk/[0-9]+/
     <<"h","t","t","p","s","?",":","/","/","w","e","b","a","r","c","h","i",
       "v","e",".","n","a","t","i","o","n","a","l","a","r","c","h","i","v",
       "e","s",".","g","o","v",".","u","k","/","[","0","-","9","]","+","/">>,
     \* https?://webarchive.nationalarchives.gov.uk/[0-9]+tf_/
     <<"h","t","t","p","s","?",":","/","/","w","e","b","a","r","c","h","i",
       "v","e",".","n","a","t","i","o","n","a","l","a","r","c","h","i","v",
       "e","s",".","g","o","v",".","u","k","/","[","0","-","9","]","+","t",
       "f","_","/">>,
     \* https?://archive.li/
     <<"h","t","t","p","s","?",":","/","/","a","r","c","h","i","v","e",".",
       "l","i","/">>,
     \* https?://archive.vn/
     <<"h","t","t","p","s","?",":","/","/","a","r","c","h","i","v","e",".",
       "v","n","/">>,
     \* https?://archive.fo/
     <<"h","t","t","p","s","?",":","/","/","a","r","c","h","i","v","e",".",
       "f","o","/">>,
     \* https?://archive.md/
     <<"h","t","t","p","s","?",":","/","/","a","r","c","h","i","v","e",".",
       "m","d","/">>,
     \* https?://archive.ph/
     <<"h","t","t","p","s","?",":","/","/","a","r","c","h","i","v","e",".",
       "p","h","/">>,
     \* https?://archive.today/
     <<"h","t","t","p","s","?",":","/","/","a","r","c","h","i","v","e",".",
       "t","o","d","a","y","/">>,
     \* https?://archive.is/
     <<"h","t","t","p","s","?",":","/","/","a","r","c","h","i","v","e",".",
       "i","s","/">>,
     \* https?://waext.banq.qc.ca/wayback/[0-9]+/
     <<"h","t","t","p","s","?",":","/","/","w","a","e","x","t",".","b","a",
       "n","q",".","q","c",".","c","a","/","w","a","y","b","a","c","k","/",
       "[","0","-","9","]","+","/">>,
     \* https?://haw.nsk.hr/arhiva/
     <<"h","t","t","p","s","?",":","/","/","h","a","w",".","n","s","k",".",
       "h","r","/","a","r","h","i","v","a","/">>,
     \* https?://wayback.webarchiv.cz/wayback/[0-9]+/
     <<"h","t","t","p","s","?",":","/","/","w","a","y","b","a","c","k",".",
       "w","e","b","a","r","c","h","i","v",".","c","z","/","w","a","y","b",
       "a","c","k","/","[","0","-","9","]","+","/">>,
     \* https?://wayback.vefsafn.is/wayback/[0-9]+/
     <<"h","t","t","p","s","?",":","/","/","w","a","y","b","a","c","k",".",
       "v","e","f","s","a","f","n",".","i","s","/","w","a","y","b","a","c",
       "k","/","[","0","-","9","]","+","/">>,
     \* https?://arquivo.pt/wayback/[0-9]+/
     <<"h","t","t","p","s","?",":","/","/","a","r","q","u","i","v","o",".",
       "p","t","/","w","a","y","b","a","c","k","/","[","0","-","9","]","+",
       "/">>,
     \* https?://arquivo.pt/wayback/[0-9]+if_/
     <<"h","t","t","p","s","?",":","/","/","a","r","q","u","i","v","o",".",
       "p","t","/","w","a","y","b","a","c","k","/","[","0","-","9","]","+",
       "i","f","_","/">>,
     \* https?://perma-archives.org/warc/[0-9]+/
     <<"h","t","t","p","s","?",":","/","/","p","e","r","m","a","-","a","r",
       "c","h","i","v","e","s",".","o","r","g","/","w","a","r","c","/","[",
       "0","-","9","]","+","/">>,
     \* https?://perma.cc/[0-9A-Z]{4}-[0-9A-Z]{4}/
     <<"h","t","t","p","s","?",":","/","/","p","e","r","m","a",".","c","c",
       "/","[","0","-","9","A","-","Z","]","{","4","}","-","[","0","-","9",
       "A","-","Z","]","{","4","}","/">>,
     \* https?://wayback.padicat.cat/wayback/[0-9]+/
     <<"h","t","t","p","s","?",":","/","/","w","a","y","b","a","c","k",".",
       "p","a","d","i","c","a","t",".","c","a","t","/","w","a","y","b","a",
       "c","k","/","[","0","-","9","]","+","/">>,
     \* https?://archive.aueb.gr/services/web/[0-9]+/
     <<"h","t","t","p","s","?",":","/","/","a","r","c","h","i","v","e",".",
       "a","u","e","b",".","g","r","/","s","e","r","v","i","c","e","s","/",
       "w","e","b","/","[","0","-","9","]","+","/">>,
     \* https?://digital.library.yorku.ca/wayback/[0-9]+/
     <<"h","t","t","p","s","?",":","/","/","d","i","g","i","t","a","l",".",
       "l","i","b","r","a","r","y",".","y","o","r","k","u",".","c","a","/",
       "w","a","y","b","a","c","k","/","[","0","-","9","]","+","/">>,
     \* https?://veebiarhiiv.digar.ee/a/[0-9]+/
     <<"h","t","t","p","s","?",":","/","/","v","e","e","b","i","a","r","h",
       "i","i","v",".","d","i","g","a","r",".","e","e","/","a","/","[","0",
       "-","9","]","+","/">>,
     \* https?://webarchive.nrscotland.gov.uk/[0-9]+/
     <<"h","t","t","p","s","?",":","/","/","w","e","b","a","r","c","h","i",
       "v","e",".","n","r","s","c","o","t","l","a","n","d",".","g","o","v",
       ".","u","k","/","[","0","-","9","]","+","/">>,
     \* https?://nukrobia.nuk.uni-lj.si:8080/wayback/[0-9]+/
     <<"h","t","t","p","s","?",":","/","/","n","u","k","r","o","b","i","a",
       ".","n","u","k",".","u","n","i","-","l","j",".","s","i",":","8","0",
       "8","0","/","w","a","y","b","a","c","k","/","[","0","-","9","]","+",
       "/">>,
     \* https?://swap.stanford.edu/[0-9]+/
     <<"h","t","t","p","s","?",":","/","/","s","w","a","p",".","s","t","a",
       "n","f","o","r","d",".","e","d","u","/","[","0","-","9","]","+","/">>
    >>

\* pattern.replace(/\./g, '\\.')
processedPattern(pattern) == ReplaceChar(pattern, ".", <<"\\", ".">>)

\* variant of compilePattern that does not anchor the pattern
compilePattern_unanchored(pattern) ==
    RegExp(processedPattern(pattern), RegExpFlags)

\* new RegExp(`^${processedPattern}`, 'i')
compilePattern(pattern) ==
    RegExp(<<"^">> \o processedPattern(pattern), RegExpFlags)

\* archivePatterns.some(pattern => new RegExp(...).test(url))
somePattern(archivePatterns, url) ==
    someTest([k \in DOMAIN archivePatterns |->
                 compilePattern(archivePatterns[k])], url).value

\* exclusions.isKnownArchive of src/robustlinks2.ts
isKnownArchive(url) == somePattern(ArchivePatterns, url)

\* what _loadAndCompileArchivePatterns assigns to _archivePatternRegexes
\* once the patterns are there: the compiled patterns, or the empty array
\* when compiling one of them throws
compiledPatterns(archivePatterns) ==
    IF \E k \in DOMAIN archivePatterns :
          IsSyntaxError(compilePattern(archivePatterns[k]).source)
    THEN <<>>
    ELSE [k \in DOMAIN archivePatterns |-> compilePattern(archivePatterns[k])]

\* a non-null value of _archivePatternRegexes
Array(regexes) == [array |-> regexes]

\* what isKnownArchive returns and leaves in _archivePatternRegexes when
\* some returned and left some
Tested(some) == [value |-> some.value, regexes |-> Array(some.regexes)]

\* variant of isKnownArchiveLoaded that falls back on the patterns of
\* src/robustlinks2.ts while none are loaded
isKnownArchiveLoaded_fallback(regexesOrNull, url) ==
    IF regexesOrNull # Null
    THEN Tested(someTest(regexesOrNull.array, url))
    ELSE [value |-> isKnownArchive(url), regexes |-> Null]

\* exclusions.isKnownArchive of src/unnamed/part_000: the value returned
\* and _archivePatternRegexes as the tests leave it
isKnownArchiveLoaded(regexesOrNull, url) ==
    IF regexesOrNull # Null
    THEN Tested(someTest(regexesOrNull.array, url))
    ELSE [value |-> FALSE, regexes |-> Null]

(***************************************************************************)
(* The strings the calls of this model are made with.                      *)
(***************************************************************************)
\* "http://a.co"
UriA ==
    <<"h","t","t","p",":","/","/","a",".","c","o">>

\* "https://b.co/x?q=1#f"
UriB ==
    <<"h","t","t","p","s",":","/","/","b",".","c","o","/","x","?","q","=",
      "1","#","f">>

\* "https://b.co/s"
UriSnap ==
    <<"h","t","t","p","s",":","/","/","b",".","c","o","/","s">>

\* "http://a.co/?q=$&$$"
UriDollar ==
    <<"h","t","t","p",":","/","/","a",".","c","o","/","?","q","=","$","&",
      "$","$">>

\* "http://a.co/<urir>/<datetime>"
UriPlaceholder ==
    <<"h","t","t","p",":","/","/","a",".","c","o","/","<","u","r","i","r",
      ">","/","<","d","a","t","e","t","i","m","e",">">>

\* "http://a.co/%20"
UriEscaped ==
    <<"h","t","t","p",":","/","/","a",".","c","o","/","%","2","0">>

\* "/rel"
UriRelative ==
    <<"/","r","e","l">>

\* "ftp://a.co/f"
UriFtp ==
    <<"f","t","p",":","/","/","a",".","c","o","/","f">>

\* "http://"
UriNoHost ==
    <<"h","t","t","p",":","/","/">>

\* "bad"
Junk ==
    <<"b","a","d">>

\* "2023-01-15"
IsoDate ==
    <<"2","0","2","3","-","0","1","-","1","5">>

\* "2023-05-15T12:30:45Z"
IsoDatetime ==
    <<"2","0","2","3","-","0","5","-","1","5","T","1","2",":","3","0",":",
      "4","5","Z">>

\* "20221123100530"
WaDatetime ==
    <<"2","0","2","2","1","1","2","3","1","0","0","5","3","0">>

\* "2023/01/15"
BadDate ==
    <<"2","0","2","3","/","0","1","/","1","5">>

\* "https://web.archive.org/"
DefaultTimeGate ==
    <<"h","t","t","p","s",":","/","/","w","e","b",".","a","r","c","h","i",
      "v","e",".","o","r","g","/">>

\* "https://tg.net/"
CustomTimeGate ==
    <<"h","t","t","p","s",":","/","/","t","g",".","n","e","t","/">>

\* "<datetime>/<urir>"
DatetimeUrirSuffix ==
    <<"<","d","a","t","e","t","i","m","e",">","/","<","u","r","i","r",">">>

\* "https://my.net/tg/<datetime>/r/<urir>?v=1"
CustomPattern ==
    <<"h","t","t","p","s",":","/","/","m","y",".","n","e","t","/","t","g",
      "/","<","d","a","t","e","t","i","m","e",">","/","r","/","<","u","r",
      "i","r",">","?","v","=","1">>

\* "t"
LinkText ==
    <<"t">>

(***************************************************************************)
(* Bounds and input sets.                                                  *)
(***************************************************************************)
\* most tokens in a data-versionurl string handed to parseVersionUrl
MaxTokens == 3

\* most tokens in the data-versionurl attribute handed to parseRobustLink
MaxLinkTokens == 2

\* the tokens data-versionurl strings are built from
TokenVocab == {UriA, UriSnap, WaDatetime, IsoDate, Junk}

\* the tokens of the data-versionurl attribute handed to parseRobustLink
LinkTokenVocab == {UriSnap, WaDatetime, Junk}

\* what stands between two tokens: one space, two spaces, a tab, a newline
Separators == {<<" ">>, <<" ", " ">>, <<"\t">>, <<"\n">>}

\* what stands before the first and after the last token
Paddings == {<<>>, <<" ">>}

\* the strings of at most n tokens, joined by one kind of separator
VersionUrlStrings(vocab, n, seps, pads) ==
    { pad \o Join(toks, sep) \o pad :
        toks \in UNION {[1..k -> vocab] : k \in 0..n},
        sep \in seps, pad \in pads }

\* the arguments of parseVersionUrl when its loop is followed step by step
LoopInputs ==
    {Undefined, <<>>}
    \cup VersionUrlStrings(TokenVocab, MaxTokens, {<<" ">>, <<" ", " ">>},
                           {<<>>})

\* the arguments of parseVersionUrl
VersionUrlInputs ==
    {Undefined} \cup VersionUrlStrings(TokenVocab, MaxTokens, Separators, Paddings)

\* the raw attributes of parseRobustLink
HrefInputs == {<<>>, UriA, UriB, UriRelative, UriFtp}

OriginalUrlInputs == {Undefined, <<>>, UriA, UriDollar, Junk}

VersionDateInputs == {Undefined, <<>>, IsoDate, WaDatetime, BadDate}

LinkVersionUrlInputs ==
    {Undefined}
    \cup VersionUrlStrings(LinkTokenVocab, MaxLinkTokens, {<<" ">>}, {<<>>})

LinkTextInputs == {Undefined, LinkText}

\* the arguments of createMementoUri
MementoUrlInputs ==
    {UriA, UriB, UriDollar, UriPlaceholder, UriEscaped,
     <<>>, UriRelative, UriFtp, UriNoHost, Junk}

DateTimeInputs ==
    {NoDate, parseDatetime(IsoDate), parseDatetime(IsoDatetime),
     parseDatetime(WaDatetime)}

\* the values the public urimPattern property is set to
PatternInputs == {CustomPattern, CustomTimeGate \o DatetimeUrirSuffix}

\* the calendar fields datetime strings are spelled from; they include
\* two-digit and three-digit years and fields outside the calendar
YearInputs == {0, 50, 99, 100, 999, 1000, 1970, 2024, 9999}

MonthInputs == {0, 1, 2, 12, 13}

DayInputs == {0, 1, 28, 29, 30, 31, 32}

\* hours, minutes and seconds
TimeInputs ==
    {<<0, 0, 0>>, <<12, 0, 0>>, <<10, 5, 30>>, <<23, 59, 59>>, <<24, 0, 0>>,
     <<99, 99, 99>>}

\* the four spellings of a date or an instant
IsoDateOf(y, m, d) ==
    PadStart(NumToStr(y), 4) \o <<"-">> \o PadStart2(m) \o <<"-">>
    \o PadStart2(d)

IsoDatetimeOf(y, m, d, t) ==
    IsoDateOf(y, m, d) \o <<"T">> \o PadStart2(t[1]) \o <<":">>
    \o PadStart2(t[2]) \o <<":">> \o PadStart2(t[3]) \o <<"Z">>

WaDateOf(y, m, d) == PadStart(NumToStr(y), 4) \o PadStart2(m) \o PadStart2(d)

WaDatetimeOf(y, m, d, t) ==
    WaDateOf(y, m, d) \o PadStart2(t[1]) \o PadStart2(t[2]) \o PadStart2(t[3])

\* the strings of the four accepted shapes
WellFormedDatetimeStrings ==
    UNION { {IsoDateOf(y, m, d), WaDateOf(y, m, d)}
            \cup {IsoDatetimeOf(y, m, d, t) : t \in TimeInputs}
            \cup {WaDatetimeOf(y, m, d, t) : t \in TimeInputs} :
            y \in YearInputs, m \in MonthInputs, d \in DayInputs }

\* ways to spoil a datetime string: a character missing or added at either
\* end, another separator, no or another zone designator
Malformations(str) ==
    {SubSeq(str, 1, Len(str) - 1), Tail(str),
     str \o <<"0">>, <<"0">> \o str, str \o <<"Z">>,
     <<" ">> \o str, str \o <<" ">>, str \o <<"\n">>, <<"x">> \o str,
     ReplaceChar(str, "-", <<"/">>), ReplaceChar(str, "-", <<>>),
     ReplaceChar(str, ":", <<>>), ReplaceChar(str, "T", <<" ">>),
     ReplaceChar(str, "T", <<"t">>), ReplaceChar(str, "Z", <<"z">>),
     ReplaceChar(str, "Z", <<"+", "0", "0", ":", "0", "0">>),
     ReplaceChar(str, "0", <<"O">>)}

\* the strings spoiled
MalformedBase ==
    {IsoDate, IsoDatetime, WaDatetime, WaDateOf(2023, 1, 15)}

\* the arguments of parseDatetime
DatetimeStrInputs ==
    WellFormedDatetimeStrings \cup {<<>>, Junk, BadDate}
    \cup UNION {Malformations(str) : str \in MalformedBase}

\* the arguments of formatDateTime: the Dates parseDatetime returns
FormatDateInputs == {parseDatetime(str) : str \in DatetimeStrInputs} \ {Null}

\* the date-only strings YYYY-MM-DD
DateOnlyStrings ==
    {IsoDateOf(y, m, d) : y \in YearInputs, m \in MonthInputs, d \in DayInputs}

\* the tokens of the data-versionurl strings whose snapshots are rendered
SnapshotTokenVocab == {UriA, UriSnap, WaDatetime, IsoDate}

\* those strings: tokens one or two spaces apart, with or without padding
SnapshotStrings ==
    VersionUrlStrings(SnapshotTokenVocab, MaxTokens,
                      {<<" ">>, <<" ", " ">>}, Paddings)

\* the raw attributes of the links that are parsed and then rendered: every
\* date-only string and a string of each other shape as data-versiondate,
\* every snapshot string as data-versionurl
RenderedAttributes ==
    { [href        |-> UriA,
       originalurl |-> UriB,
       versiondate |-> pair[1],
       versionurl  |-> pair[2]] :
        pair \in ((DateOnlyStrings \cup {IsoDatetime, WaDatetime})
                     \X {Undefined})
                 \cup ({IsoDate} \X SnapshotStrings) }

\* records built by hand: a snapshot with an empty datetime, one with a
\* datetime parseDatetime does not accept, and no link text
HandBuiltLinks ==
    { [href             |-> UriA,
       originalUrl      |-> UriB,
       versionDate      |-> parseDatetime(IsoDate),
       versionSnapshots |-> snapshots,
       linkText         |-> <<>>] :
        snapshots \in {<<[uri |-> UriA, datetime |-> <<>>], [uri |-> UriSnap]>>,
                       <<[uri |-> UriA, datetime |-> BadDate]>>} }

\* "https?"
SchemePattern ==
    <<"h","t","t","p","s","?">>

\* "[0-9]+"
DigitsPattern ==
    <<"[","0","-","9","]","+">>

\* "[0-9A-Z]{4}"
CodePattern ==
    <<"[","0","-","9","A","-","Z","]","{","4","}">>

\* "http://a.co/?u="
UrlInQuery ==
    <<"h","t","t","p",":","/","/","a",".","c","o","/","?","u","=">>

\* a URL spelled after a pattern: scheme in place of https?, digits in
\* place of every [0-9]+, code in place of every [0-9A-Z]{4}, and dot in
\* place of every '.'
RECURSIVE UrlAfter(_, _, _, _, _)
UrlAfter(pattern, scheme, digits, code, dot) ==
    IF pattern = <<>> THEN <<>>
    ELSE IF MatchesAt(pattern, SchemePattern, 1)
    THEN scheme \o UrlAfter(From(pattern, Len(SchemePattern) + 1),
                            scheme, digits, code, dot)
    ELSE IF MatchesAt(pattern, DigitsPattern, 1)
    THEN digits \o UrlAfter(From(pattern, Len(DigitsPattern) + 1),
                            scheme, digits, code, dot)
    ELSE IF MatchesAt(pattern, CodePattern, 1)
    THEN code \o UrlAfter(From(pattern, Len(CodePattern) + 1),
                          scheme, digits, code, dot)
    ELSE (IF pattern[1] = "." THEN dot ELSE <<pattern[1]>>)
         \o UrlAfter(Tail(pattern), scheme, digits, code, dot)

\* the ways the URLs are spelled after a pattern: what stands before, the
\* scheme, the digit run, the code and the dot; the first fits the patterns,
\* the next two fit them because case is ignored, the others do not
Spelling(prefix, scheme, digits, code, dot) ==
    [prefix |-> prefix, scheme |-> scheme, digits |-> digits, code |-> code,
     dot |-> dot]

SpellingInputs ==
    {Spelling(<<>>, <<"h","t","t","p">>, <<"2","0","2","0">>,
              <<"A","B","1","2">>, <<".">>),
     Spelling(<<>>, <<"H","T","T","P","S">>, <<"7">>,
              <<"A","B","1","2">>, <<".">>),
     Spelling(<<>>, <<"h","t","t","p","s">>, <<"2","0","2","0">>,
              <<"a","b","1","2">>, <<".">>),
     Spelling(<<>>, <<"h","t","t">>, <<"2","0","2","0">>,
              <<"A","B","1","2">>, <<".">>),
     Spelling(<<>>, <<"h","t","t","p">>, <<>>,
              <<"A","B","1">>, <<".">>),
     Spelling(<<>>, <<"h","t","t","p">>, <<"2","0","2","0">>,
              <<"A","B","1","2">>, <<"x">>),
     Spelling(UrlInQuery, <<"h","t","t","p">>, <<"2","0","2","0">>,
              <<"A","B","1","2">>, <<".">>)}

\* the arguments of isArchiveUrl
ArchiveUrlInputs ==
    {UriA, UriB, <<>>}
    \cup { sp.prefix \o UrlAfter(ArchivePatterns[k], sp.scheme, sp.digits,
                                  sp.code, sp.dot) \o UriA :
             k \in DOMAIN ArchivePatterns, sp \in SpellingInputs }

\* the longest list of patterns archiveExclusions.json holds
MaxPatterns == 2

\* "https?://a.co/[", a pattern new RegExp throws on
PatternBroken ==
    <<"h","t","t","p","s","?",":","/","/","a",".","c","o","/","[">>

\* "https?://web.archive.org/web/"
PatternWeb == ArchivePatterns[1]

\* "https?://wayback.archive-it.org/[0-9]+/"
PatternDigits == ArchivePatterns[8]

\* the patterns archiveExclusions.json is made of
PatternVocab == {PatternWeb, PatternDigits, PatternBroken}

\* the contents of archiveExclusions.json: lists of distinct patterns
PatternLists ==
    {list \in UNION {[1..n -> PatternVocab] : n \in 0..MaxPatterns} :
        \A j, k \in DOMAIN list : list[j] = list[k] => j = k}

\* "http://web.archive.org/web/http://a.co"
UrlWeb ==
    UrlAfter(PatternWeb, <<"h","t","t","p">>, <<>>, <<>>, <<".">>) \o UriA

\* "HTTPS://wayback.archive-it.org/2020/http://a.co"
UrlDigits ==
    UrlAfter(PatternDigits, <<"H","T","T","P","S">>, <<"2","0","2","0">>,
             <<>>, <<".">>) \o UriA

\* the arguments of isArchiveUrl while and after the patterns are loaded
LoaderUrlInputs == {UriA, UrlWeb, UrlDigits, UrlInQuery \o UrlWeb}

\* what the arguments of isValidAbsoluteUrl begin with
UrlSchemeInputs ==
    {<<"h","t","t","p">>,
     <<"H","T","T","P","S">>,
     <<"f","t","p">>,
     <<"m","a","i","l","t","o">>,
     <<"j","a","v","a","s","c","r","i","p","t">>,
     <<"1","h","t","t","p">>,
     <<>>}

\* what follows: a colon and slashes, or not
UrlSeparatorInputs ==
    {<<":">>,
     <<":","/","/">>,
     <<":","/">>,
     <<":","\\","\\">>,
     <<"/","/">>,
     <<>>}

\* the authorities: hosts, credentials, ports and percent-escapes, well
\* formed and malformed
UrlAuthorityInputs ==
    {<<"a",".","c","o">>,
     <<>>,
     <<"u",":","p","@","A",".","c","o">>,
     <<"a",".","c","o",":","0","8","0">>,
     <<"a",".","c","o",":","9","9","9","9","9">>,
     <<"a",".","c","o",":","8","x">>,
     <<"%","z","z">>,
     <<"%","4","1",".","c","o">>,
     <<"%","2","F",".","c","o">>,
     <<"a"," ","b",".","c","o">>}

\* the paths, queries and fragments, some with malformed percent-escapes
UrlTailInputs ==
    {<<>>,
     <<"/">>,
     <<"/","%","z","z","?","q","=","%","#","%">>,
     <<"?","q">>,
     <<"#","f">>}

\* what surrounds the URL
UrlPaddingInputs ==
    {<<>>,
     <<" ">>,
     <<"\n">>}

\* the arguments of isValidAbsoluteUrl
UrlStringInputs ==
    { pad \o scheme \o sep \o authority \o tail \o pad :
         scheme \in UrlSchemeInputs, sep \in UrlSeparatorInputs,
         authority \in UrlAuthorityInputs, tail \in UrlTailInputs,
         pad \in UrlPaddingInputs }

\* an element of the page
Element(tag, classes, href, originalUrl, versionDate, versionUrl) ==
    [tag        |-> tag,
     classes    |-> classes,
     attributes |-> [name \in AttributeNames |->
                        CASE name = "href" -> href
                          [] name = "data-originalurl" -> originalUrl
                          [] name = "data-versiondate" -> versionDate
                          [] name = "data-versionurl" -> versionUrl
                          [] OTHER -> Undefined],
     dropdowns  |-> <<>>]

\* the pages: a plain link, a paragraph and a link that is robust already,
\* all of the class link, and a link of no class
PageInputs ==
    {<<Element("a", {"link"}, UriB, Undefined, Undefined, Undefined),
       Element("p", {"link"}, Undefined, Undefined, Undefined, Undefined),
       Element("a", {"link"}, UriSnap, UriB, IsoDate, UriSnap)>>,
     <<Element("a", {}, UriB, Undefined, Undefined, Undefined),
       Element("a", {"link", "ext"}, UriA, Undefined, Undefined, UriSnap)>>}

\* new Date(NaN)
InvalidDate == [invalid |-> TRUE]

\* a string where a Date is expected
NotADate == [string |-> IsoDate]

\* options with another originalUrl and a newHref that is no http/https URI
OtherOptions ==
    [originalUrl |-> UriB, versionDate |-> parseDatetime(WaDatetime),
     newHref |-> UriFtp]

\* the options of updateAnchorToRobustLink: complete ones, and ones with an
\* invalid originalUrl or versionDate
OptionInputs ==
    {[originalUrl |-> UriA, versionDate |-> parseDatetime(WaDatetime)],
     [originalUrl |-> UriA, versionDate |-> parseDatetime(WaDatetime),
      versionSnapshots |-> <<[uri |-> UriSnap, datetime |-> WaDatetime]>>,
      newHref |-> UriSnap],
     [originalUrl |-> UriRelative, versionDate |-> parseDatetime(WaDatetime),
      versionSnapshots |-> <<[uri |-> UriSnap]>>, newHref |-> UriSnap],
     [originalUrl |-> UriA, versionDate |-> InvalidDate, newHref |-> UriSnap],
     [originalUrl |-> UriA, versionDate |-> NotADate,
      versionSnapshots |-> <<>>],
     OtherOptions}

\* what a data producer does for an element: it returns options or null,
\* or throws
ProducerInputs == (OptionInputs \ {OtherOptions}) \cup {Null, [throws |-> TRUE]}

\* the selectors makeAllLinksRobust is called with
SelectorInputs == {SelectorLink, SelectorNotRobust}

(***************************************************************************)
(* Auto-initialisation: anchor.href, the default data producer, _initAuto  *)
(* and the calls that wait for the exclusion patterns.                     *)
(***************************************************************************)
\* "https://site.org", the origin of the document; the document is at its
\* root
DocumentOrigin ==
    <<"h","t","t","p","s",":","/","/","s","i","t","e",".","o","r","g">>

\* what follows the authority in rest
AfterAuthority(rest) == From(rest, Len(Authority(rest)) + 1)

\* the path, query and fragment as serialised: an empty path is "/"
RootedPath(tail) ==
    IF tail = <<>> \/ tail[1] \in {"?", "#"} THEN <<"/">> \o tail ELSE tail

\* the serialisation of the http, https or ftp URL s, of which rest follows
\* the slashes.  The hrefs of this model have no credentials, port, dot
\* segment or character that the serialiser escapes
SerialisedUrl(s, rest) ==
    UrlScheme(s) \o <<":", "/", "/">>
        \o Domain(HostOf(AfterLastAt(Authority(rest))))
        \o RootedPath(AfterAuthority(rest))

\* the href property for the attribute value attr, preprocessed to s: the
\* serialisation of the URL that attr parses to against the document's
\* URL, or attr when it does not parse
hrefProperty(attr, s) ==
    IF SchemeEnd(s) = 0
    THEN DocumentOrigin \o (IF s # <<>> /\ s[1] = "/" THEN s ELSE <<"/">> \o s)
    ELSE IF UrlScheme(s) \notin SpecialSchemes
    THEN UrlScheme(s) \o From(s, SchemeEnd(s))
    ELSE IF HostPortOk(SpecialHostPort(s))
    THEN SerialisedUrl(s, SkipSlashes(From(s, SchemeEnd(s) + 1)))
    ELSE attr

\* anchor.href: the empty string without an href attribute
hrefOf(anchorElement) ==
    IF anchorElement.attributes["href"] = Undefined THEN <<>>
    ELSE hrefProperty(anchorElement.attributes["href"],
                      UrlInput(anchorElement.attributes["href"]))

\* new Date() when the model runs: 2023-05-15T12:30:45Z
CurrentDate == parseDatetime(IsoDatetime)

\* the condition under which the default data producer returns null
skippedByDefault(regexes, originalUrl) ==
    \/ ~isValidAbsoluteUrl(originalUrl)
    \/ isKnownArchiveLoaded(regexes, originalUrl).value

\* the object the default data producer returns (in part_000 and the demo
\* after _isLinkRotted, which always answers true)
defaultLinkData(pattern, gate, originalUrl) ==
    [originalUrl      |-> originalUrl,
     versionDate      |-> CurrentDate,
     newHref          |-> createMementoUri(pattern, gate, originalUrl,
                                           NoDate).value,
     versionSnapshots |-> <<>>]

\* variant of defaultDataProducer that does not ask isArchiveUrl
defaultDataProducer_noExclusion(regexes, pattern, gate, originalUrl) ==
    IF ~isValidAbsoluteUrl(originalUrl) THEN Null
    ELSE defaultLinkData(pattern, gate, originalUrl)

\* the function _createDefaultDataProducer returns, called for an anchor
\* whose href is originalUrl while _archivePatternRegexes is regexes
defaultDataProducer(regexes, pattern, gate, originalUrl) ==
    IF skippedByDefault(regexes, originalUrl) THEN Null
    ELSE defaultLinkData(pattern, gate, originalUrl)

\* the data producers: the default one, and custom ones that do the same
\* for every anchor
DefaultProducer == [default |-> TRUE]

CustomProducer(linkData) == [custom |-> linkData]

\* what dataProducer does for each of anchorElements
producerResults(dataProducer, regexes, pattern, gate, page, anchorElements) ==
    [k \in Range(anchorElements) |->
        IF "default" \in DOMAIN dataProducer
        THEN defaultDataProducer(regexes, pattern, gate, hrefOf(page[k]))
        ELSE dataProducer.custom]

\* a call suspended at await this.getExclusionsReadyPromise(): _initAuto of
\* part_000, which selects the anchors when it resumes, or makeAllLinksRobust
\* of the demo, which has selected them before
InitAutoTask(selector, dataProducer) ==
    [op |-> "_initAuto", selector |-> selector, dataProducer |-> dataProducer]

MakeAllLinksRobustTask(anchorElements, dataProducer) ==
    [op |-> "makeAllLinksRobust", anchorElements |-> anchorElements,
     dataProducer |-> dataProducer]

\* the anchors a task works on
anchorsOf(page, task) ==
    IF "anchorElements" \in DOMAIN task THEN task.anchorElements
    ELSE querySelectorAll(page, task.selector)

\* the loop over the anchors with their producer: the data producer is
\* asked for every anchor and the anchor updated; an error is caught per
\* anchor
robustLoop(dropdown, pattern, gate, regexes, page, anchorElements, dataProducer) ==
    forEachAnchor(dropdown, pattern, gate, anchorElements,
                  producerResults(dataProducer, regexes, pattern, gate, page,
                                  anchorElements),
                  Loop(page, <<>>, <<>>))

\* the rest of a suspended call, from its await to its end
resumeTask(dropdown, pattern, gate, regexes, page, task) ==
    robustLoop(dropdown, pattern, gate, regexes, page, anchorsOf(page, task),
               task.dataProducer)

\* the suspended calls resume in the order they were suspended in; the page
\* as they leave it
RECURSIVE resumeAll(_, _, _, _, _, _)
resumeAll(dropdown, pattern, gate, regexes, page, tasks) ==
    IF tasks = <<>> THEN page
    ELSE resumeAll(dropdown, pattern, gate, regexes,
                   resumeTask(dropdown, pattern, gate, regexes, page,
                              tasks[1]).page,
                   Tail(tasks))

\* what _initAuto decides: to do nothing, to run the loop at once
\* ("now"), to wait for the patterns and then select the anchors ("await"),
\* or to select the anchors and then wait for the patterns ("selected")
NoPlan == [run |-> "no"]

Plan(run, selector, dataProducer) ==
    [run |-> run, selector |-> selector, dataProducer |-> dataProducer]

\* autoInitConfig.selector || autoInitSelector
selectorOf(autoInitConfig) ==
    IF IsFalsy(Get(autoInitConfig, "selector")) THEN SelectorAutoInit
    ELSE autoInitConfig.selector

\* _initAuto of src/unnamed/part_000 and of src/demo/robustlinks2.js, which
\* differ in when the anchors are selected (run): true takes the default
\* producer, an object takes its producer and without one nothing is done
initAutoAsync(run, autoInitConfig) ==
    IF "boolean" \in DOMAIN autoInitConfig
    THEN IF autoInitConfig.boolean
         THEN Plan(run, SelectorAutoInit, DefaultProducer)
         ELSE NoPlan
    ELSE IF "dataProducer" \in DOMAIN autoInitConfig
    THEN Plan(run, selectorOf(autoInitConfig), autoInitConfig.dataProducer)
    ELSE NoPlan

\* _initAuto of src/unnamed/part_001: makeAllLinksRobust is called inside
\* the branch for an object, so that true creates the default producer and
\* leaves it unused
initAutoSync(autoInitConfig) ==
    IF "boolean" \in DOMAIN autoInitConfig THEN NoPlan
    ELSE Plan("now", selectorOf(autoInitConfig),
              IF "dataProducer" \in DOMAIN autoInitConfig
              THEN autoInitConfig.dataProducer
              ELSE DefaultProducer)

\* the variants of the class that load the exclusion patterns
Variants ==
    {"src/unnamed/part_000", "src/unnamed/part_001", "src/demo/robustlinks2.js"}

\* config.autoInit !== undefined ? config.autoInit : <default>
autoInitConfigOf(which, config) ==
    IF "autoInit" \in DOMAIN config THEN config.autoInit
    ELSE [boolean |-> which = "src/unnamed/part_001"]

\* this._initAuto(autoInitConfig) in the class of the source file which
initAuto(which, autoInitConfig) ==
    IF which = "src/unnamed/part_001" THEN initAutoSync(autoInitConfig)
    ELSE initAutoAsync(IF which = "src/unnamed/part_000" THEN "await"
                       ELSE "selected",
                       autoInitConfig)

\* the calls _initAuto leaves suspended
suspended(plan, page) ==
    IF plan.run = "await"
    THEN <<InitAutoTask(plan.selector, plan.dataProducer)>>
    ELSE IF plan.run = "selected"
    THEN <<MakeAllLinksRobustTask(querySelectorAll(page, plan.selector),
                                  plan.dataProducer)>>
    ELSE <<>>

\* the most calls that wait for the patterns at a time
MaxAwaiting == 2

\* "HTTP://web.archive.org/web/http://a.co"
UrlWebUpper ==
    <<"H","T","T","P">> \o From(UrlWeb, 5)

\* the pages auto-initialisation runs on: links to archived pages (one of
\* them with its scheme in upper case), plain links, a link that is robust
\* already, a relative link and an anchor without href
AutoPageInputs ==
    {<<Element("a", {"link"}, UrlWeb, Undefined, Undefined, Undefined),
       Element("a", {}, UriB, Undefined, Undefined, Undefined),
       Element("a", {"link"}, UriSnap, UriB, IsoDate, UriSnap)>>,
     <<Element("a", {"link"}, UriA, Undefined, Undefined, Undefined),
       Element("a", {}, UrlWebUpper, Undefined, Undefined, Undefined),
       Element("a", {}, UriRelative, Undefined, Undefined, Undefined),
       Element("a", {}, Undefined, Undefined, Undefined, Undefined),
       Element("p", {}, Undefined, Undefined, Undefined, Undefined)>>}

\* what a custom data producer does for every anchor
CustomProducerInputs ==
    {CustomProducer(linkData) :
        linkData \in {[originalUrl |-> UriA,
                       versionDate |-> parseDatetime(WaDatetime),
                       newHref     |-> UriSnap],
                      Null,
                      [throws |-> TRUE]}}

\* config.autoInit: a boolean, or an object with or without selector and
\* dataProducer
AutoInitInputs ==
    {[boolean |-> TRUE], [boolean |-> FALSE], [object |-> TRUE],
     [object |-> TRUE, selector |-> SelectorLink]}
    \cup {[object |-> TRUE, dataProducer |-> producer] :
             producer \in CustomProducerInputs}

\* the config the class is constructed with: with or without autoInit
ConfigInputs ==
    {[debug |-> FALSE]}
    \cup {[debug |-> FALSE, autoInit |-> autoInit] :
             autoInit \in AutoInitInputs}

(***************************************************************************)
(* State.                                                                  *)
(***************************************************************************)
VARIABLES
    timeGate,     \* this.timeGate
    urimPattern,  \* this.urimPattern
    call,         \* the method call under way, with its arguments
    result,       \* what that call returned or threw, and what it warned
    enableDropdown,         \* this.enableDropdown
    document,               \* the elements of the page, in document order
    archivePatternRegexes,  \* this._archivePatternRegexes
    fetchState,             \* the request for the exclusion patterns
    answers,                \* what isArchiveUrl answered, per URL, since
                            \* this._archivePatternRegexes was last assigned
    variant,                \* the source file the class is taken from
    awaiting                \* the async calls suspended at
                            \* await this.getExclusionsReadyPromise(), in
                            \* the order they resume

\* the state of the page
domVars == <<enableDropdown, document>>

\* the state of the archive classifier
archiveVars == <<archivePatternRegexes, fetchState, answers>>

\* the class and its suspended calls
asyncVars == <<variant, awaiting>>

vars == <<timeGate, urimPattern, call, result, domVars, archiveVars, asyncVars>>

\* the instance right after the constructor has returned: no dropdowns, an
\* empty page, the patterns requested but not yet there
Constructed ==
    /\ enableDropdown = FALSE
    /\ document = <<>>
    /\ archivePatternRegexes = Null
    /\ fetchState = [stage |-> "fetching"]
    /\ answers = {}
    /\ variant = "src/unnamed/part_000"
    /\ awaiting = <<>>

\* new RobustLinksV2(): timeGate is the default, urimPattern is built from it
Init ==
    /\ timeGate = DefaultTimeGate
    /\ urimPattern = timeGate \o DatetimeUrirSuffix
    /\ call = [op |-> "none"]
    /\ result = [kind |-> "none"]
    /\ Constructed

\* new RobustLinksV2(config): timeGate is config.timeGate when that is given
InitConfig ==
    /\ timeGate \in {DefaultTimeGate, CustomTimeGate}
    /\ urimPattern = timeGate \o DatetimeUrirSuffix
    /\ call = [op |-> "none"]
    /\ result = [kind |-> "none"]
    /\ Constructed

\* an assignment to the public property urimPattern
SetUrimPattern ==
    /\ call.op = "none"
    /\ \E pattern \in PatternInputs : urimPattern' = pattern
    /\ UNCHANGED <<timeGate, call, result, domVars, archiveVars, asyncVars>>

\* a call RobustLinksV2.parseVersionUrl(versionUrlString)
CallParseVersionUrl ==
    /\ call.op = "none"
    /\ \E versionUrlString \in VersionUrlInputs :
          /\ call' = [op |-> "parseVersionUrl",
                      versionUrlString |-> versionUrlString]
          /\ result' = LET parsed == parseVersionUrl(versionUrlString)
                       IN  Return(parsed.snapshots, parsed.warned)
    /\ UNCHANGED <<timeGate, urimPattern, domVars, archiveVars, asyncVars>>

\* parseVersionUrl(versionUrlString) up to its loop: it returns at once
\* for a string that is undefined or empty, and else splits it and sets i
EnterParseVersionUrl ==
    /\ call.op = "none"
    /\ \E versionUrlString \in LoopInputs :
          IF IsFalsy(versionUrlString)
          THEN /\ call' = [op |-> "parseVersionUrl",
                           versionUrlString |-> versionUrlString]
               /\ result' = Return(<<>>, <<>>)
          ELSE /\ call' = [op |-> "while",
                           versionUrlString |-> versionUrlString,
                           parts |-> splitParts(versionUrlString),
                           i |-> 0]
               /\ result' = [kind |-> "running", snapshots |-> <<>>,
                             warned |-> <<>>]
    /\ UNCHANGED <<timeGate, urimPattern, domVars, archiveVars, asyncVars>>

\* the call is in its loop and i < parts.length
InLoop == call.op = "while" /\ call.i < Len(call.parts)

\* one iteration of while (i < parts.length)
Iterate ==
    /\ InLoop
    /\ call' = [call EXCEPT !.i = loopBody(call.parts, call.i,
                                            result.snapshots,
                                            result.warned).i]
    /\ result' = [kind      |-> "running",
                  snapshots |-> loopBody(call.parts, call.i, result.snapshots,
                                         result.warned).snapshots,
                  warned    |-> loopBody(call.parts, call.i, result.snapshots,
                                         result.warned).warned]
    /\ UNCHANGED <<timeGate, urimPattern, domVars, archiveVars, asyncVars>>

\* the loop is left and the snapshots are returned
ReturnSnapshots ==
    /\ call.op = "while"
    /\ ~(call.i < Len(call.parts))
    /\ call' = [op |-> "parseVersionUrl",
                versionUrlString |-> call.versionUrlString]
    /\ result' = Return(result.snapshots, result.warned)
    /\ UNCHANGED <<timeGate, urimPattern, domVars, archiveVars, asyncVars>>

\* a call parseRobustLink(rawAttributes, defaultLinkText)
CallParseRobustLink ==
    /\ call.op = "none"
    /\ \E href \in HrefInputs, originalurl \in OriginalUrlInputs,
          versiondate \in VersionDateInputs,
          versionurl \in LinkVersionUrlInputs, linkText \in LinkTextInputs :
          LET rawAttributes == [href        |-> href,
                                originalurl |-> originalurl,
                                versiondate |-> versiondate,
                                versionurl  |-> versionurl]
          IN  /\ call' = [op |-> "parseRobustLink",
                          rawAttributes |-> rawAttributes,
                          defaultLinkText |-> linkText]
              /\ result' = parseRobustLink(rawAttributes, linkText)
    /\ UNCHANGED <<timeGate, urimPattern, domVars, archiveVars, asyncVars>>

\* a call createMementoUri(originalUrl, dateTime)
CallCreateMementoUri ==
    /\ call.op = "none"
    /\ \E originalUrl \in MementoUrlInputs, dateTime \in DateTimeInputs :
          /\ call' = [op |-> "createMementoUri",
                      originalUrl |-> originalUrl, dateTime |-> dateTime]
          /\ result' = createMementoUri(urimPattern, timeGate,
                                        originalUrl, dateTime)
    /\ UNCHANGED <<timeGate, urimPattern, domVars, archiveVars, asyncVars>>

\* a call RobustLinksV2.parseDatetime(datetimeStr)
CallParseDatetime ==
    /\ call.op = "none"
    /\ \E datetimeStr \in DatetimeStrInputs :
          /\ call' = [op |-> "parseDatetime", datetimeStr |-> datetimeStr]
          /\ result' = Return(parseDatetime(datetimeStr), <<>>)
    /\ UNCHANGED <<timeGate, urimPattern, domVars, archiveVars, asyncVars>>

\* a call this.formatDateTime(date)
CallFormatDateTime ==
    /\ call.op = "none"
    /\ \E date \in FormatDateInputs :
          /\ call' = [op |-> "formatDateTime", date |-> date]
          /\ result' = Return(formatDateTime(date), <<>>)
    /\ UNCHANGED <<timeGate, urimPattern, domVars, archiveVars, asyncVars>>

\* a call createRobustLinkHtml(parsedLink), with a record that
\* parseRobustLink returned for rawAttributes or with one built by hand
CallCreateRobustLinkHtml ==
    /\ call.op = "none"
    /\ \/ \E rawAttributes \in RenderedAttributes, linkText \in LinkTextInputs :
             \E parsed \in {parseRobustLink(rawAttributes, linkText)} :
                /\ parsed.kind = "return"
                /\ call' = [op |-> "createRobustLinkHtml",
                            parsedLink |-> parsed.value,
                            rawAttributes |-> rawAttributes]
                /\ result' = Return(createRobustLinkHtml(parsed.value), <<>>)
       \/ \E parsedLink \in HandBuiltLinks :
             /\ call' = [op |-> "createRobustLinkHtml",
                         parsedLink |-> parsedLink]
             /\ result' = Return(createRobustLinkHtml(parsedLink), <<>>)
    /\ UNCHANGED <<timeGate, urimPattern, domVars, archiveVars, asyncVars>>

\* a call isArchiveUrl(url) of src/robustlinks2.ts
CallIsArchiveUrl ==
    /\ call.op = "none"
    /\ \E url \in ArchiveUrlInputs :
          /\ call' = [op |-> "isArchiveUrl", url |-> url]
          /\ result' = Return(isKnownArchive(url), <<>>)
    /\ UNCHANGED <<timeGate, urimPattern, domVars, archiveVars, asyncVars>>

\* the caller has taken the result; the instance is ready for the next call
Finish ==
    /\ call.op \notin {"none", "while"}
    /\ call' = [op |-> "none"]
    /\ result' = [kind |-> "none"]
    /\ UNCHANGED <<timeGate, urimPattern, domVars, archiveVars, asyncVars>>

\* the parsing methods
Next ==
    \/ CallParseVersionUrl
    \/ CallParseRobustLink
    \/ Finish

Spec == Init /\ [][Next]_vars

\* the Memento URI builder of a configured instance
NextMemento ==
    \/ SetUrimPattern
    \/ CallCreateMementoUri
    \/ Finish

SpecMemento == InitConfig /\ [][NextMemento]_vars

\* the datetime codec
NextDatetime ==
    \/ CallParseDatetime
    \/ CallFormatDateTime
    \/ Finish

SpecDatetime == Init /\ [][NextDatetime]_vars

\* the rendering of records as <a> tags
NextHtml ==
    \/ CallCreateRobustLinkHtml
    \/ Finish

SpecHtml == Init /\ [][NextHtml]_vars

\* what the try block of _loadAndCompileArchivePatterns leaves: it threw,
\* or it assigned the compiled patterns
LoadThrows == [kind |-> "throw"]

LoadAssigns(archivePatterns) ==
    [kind       |-> "return",
     regexes    |-> compiledPatterns(archivePatterns),
     fetchState |-> [stage |-> "loaded", archivePatterns |-> archivePatterns]]

\* the try block from response.json() on: compiling throws on a pattern
\* that is a SyntaxError
loadTry(archivePatterns) ==
    IF \E k \in DOMAIN archivePatterns :
          IsSyntaxError(compilePattern(archivePatterns[k]).source)
    THEN LoadThrows
    ELSE LoadAssigns(archivePatterns)

\* variant of loadCatch without the catch block
loadCatch_rethrow(tried) == tried

\* the catch block of _loadAndCompileArchivePatterns: the error is written
\* to the console and the empty array assigned
loadCatch(tried) ==
    IF tried.kind = "throw"
    THEN [kind |-> "return", regexes |-> <<>>,
          fetchState |-> [stage |-> "failed"]]
    ELSE tried

\* _loadAndCompileArchivePatterns has assigned regexes and returns: its
\* promise resolves and the calls that await it resume, one after the other,
\* before anything else runs
Resumes(regexes) ==
    /\ document' = resumeAll(enableDropdown, urimPattern, timeGate, regexes,
                             document, awaiting)
    /\ awaiting' = <<>>
    /\ UNCHANGED <<timeGate, urimPattern, call, result, enableDropdown,
                   variant>>

\* _loadAndCompileArchivePatterns ends with outcome: when it returns its
\* promise resolves; were it to throw, its promise would reject, nothing
\* would be assigned and the calls that await it would throw as well
Settles(outcome) ==
    IF outcome.kind = "return"
    THEN /\ fetchState' = outcome.fetchState
         /\ archivePatternRegexes' = Array(outcome.regexes)
         /\ answers' = {}
         /\ Resumes(Array(outcome.regexes))
    ELSE /\ fetchState' = [stage |-> "rejected"]
         /\ awaiting' = <<>>
         /\ UNCHANGED <<timeGate, urimPattern, call, result, domVars,
                        archivePatternRegexes, answers, variant>>

\* _loadAndCompileArchivePatterns, first await: fetch resolves with a
\* response; one that is not ok makes the method throw into its own catch
FetchResolves ==
    /\ call.op = "none"
    /\ fetchState.stage = "fetching"
    /\ \E ok \in BOOLEAN :
          IF ok
          THEN /\ fetchState' = [stage |-> "reading"]
               /\ UNCHANGED <<timeGate, urimPattern, call, result, domVars,
                              archivePatternRegexes, answers, asyncVars>>
          ELSE Settles(loadCatch(LoadThrows))

\* _loadAndCompileArchivePatterns, first await: fetch rejects
FetchRejects ==
    /\ call.op = "none"
    /\ fetchState.stage = "fetching"
    /\ Settles(loadCatch(LoadThrows))

\* _loadAndCompileArchivePatterns, second await: response.json() resolves
\* with the patterns, which are compiled; a pattern new RegExp throws on
\* takes the method into its catch
JsonResolves ==
    /\ call.op = "none"
    /\ fetchState.stage = "reading"
    /\ \E archivePatterns \in PatternLists :
          Settles(loadCatch(loadTry(archivePatterns)))

\* _loadAndCompileArchivePatterns, second await: response.json() rejects
JsonRejects ==
    /\ call.op = "none"
    /\ fetchState.stage = "reading"
    /\ Settles(loadCatch(LoadThrows))

\* isArchiveUrl(url) of src/unnamed/part_000
CallIsArchiveUrlLoaded ==
    /\ call.op = "none"
    /\ \E url \in LoaderUrlInputs :
          \E known \in {isKnownArchiveLoaded(archivePatternRegexes, url)} :
             /\ call' = [op |-> "isArchiveUrl", url |-> url]
             /\ result' = Return(known.value, <<>>)
             /\ archivePatternRegexes' = known.regexes
             /\ answers' = answers \cup {<<url, known.value>>}
    /\ UNCHANGED <<timeGate, urimPattern, domVars, fetchState, asyncVars>>

\* RobustLinksV2.isValidAbsoluteUrl(url)
CallIsValidAbsoluteUrl ==
    /\ call.op = "none"
    /\ \E url \in UrlStringInputs :
          /\ call' = [op |-> "isValidAbsoluteUrl", url |-> url]
          /\ result' = isValidAbsoluteUrlCatch(url)
    /\ UNCHANGED <<timeGate, urimPattern, domVars, archiveVars, asyncVars>>

\* new RobustLinksV2({enableDropdown}) on a page
InitPage ==
    /\ timeGate = DefaultTimeGate
    /\ urimPattern = timeGate \o DatetimeUrirSuffix
    /\ call = [op |-> "none"]
    /\ result = [kind |-> "none"]
    /\ enableDropdown \in BOOLEAN
    /\ document \in PageInputs
    /\ archivePatternRegexes = Null
    /\ fetchState = [stage |-> "fetching"]
    /\ answers = {}
    /\ variant = "src/unnamed/part_000"
    /\ awaiting = <<>>

\* updateAnchorToRobustLink(anchorElement, options), for an element of the
\* page or null
CallUpdateAnchorToRobustLink ==
    /\ call.op = "none"
    /\ \E anchor \in DOMAIN document \cup {0}, options \in OptionInputs :
          \E update \in {updateAnchorToRobustLink(
                             enableDropdown, urimPattern, timeGate,
                             IF anchor = 0 THEN Null ELSE document[anchor],
                             options)} :
             /\ call' = [op |-> "updateAnchorToRobustLink",
                         anchor |-> anchor, options |-> options,
                         before |-> document]
             /\ document' = IF anchor = 0 THEN document
                            ELSE [document EXCEPT
                                     ![anchor] = update.anchorElement]
             /\ result' = IF update.kind = "throw"
                          THEN Throw(update.error, <<>>)
                          ELSE [kind |-> "return"]
    /\ UNCHANGED <<timeGate, urimPattern, enableDropdown, archiveVars, asyncVars>>

\* makeAllLinksRobust(selector, dataProducer)
CallMakeAllLinksRobust ==
    /\ call.op = "none"
    /\ \E selector \in SelectorInputs :
          \E dataProducer \in
                [Range(querySelectorAll(document, selector)) -> ProducerInputs] :
             \E loop \in {makeAllLinksRobust(enableDropdown, urimPattern,
                                              timeGate, document, selector,
                                              dataProducer)} :
                /\ call' = [op |-> "makeAllLinksRobust",
                            selector |-> selector,
                            dataProducer |-> dataProducer,
                            before |-> document]
                /\ document' = loop.page
                /\ result' = [kind   |-> "return",
                              value  |-> loop.updatedLinks,
                              errors |-> loop.errors]
    /\ UNCHANGED <<timeGate, urimPattern, enableDropdown, archiveVars, asyncVars>>

\* a page whose script is about to construct the class
InitAuto ==
    /\ timeGate = DefaultTimeGate
    /\ urimPattern = timeGate \o DatetimeUrirSuffix
    /\ call = [op |-> "none"]
    /\ result = [kind |-> "none"]
    /\ enableDropdown = FALSE
    /\ document \in AutoPageInputs
    /\ archivePatternRegexes = Null
    /\ fetchState = [stage |-> "unsent"]
    /\ answers = {}
    /\ variant \in Variants
    /\ awaiting = <<>>

\* new RobustLinksV2(config): the patterns are requested and _initAuto runs
\* to its end or to its first await
Constructor ==
    /\ call.op = "none"
    /\ fetchState.stage = "unsent"
    /\ \E config \in ConfigInputs :
          \E plan \in {initAuto(variant, autoInitConfigOf(variant, config))} :
             /\ call' = [op |-> "constructor", config |-> config,
                         before |-> document]
             /\ document' =
                   IF plan.run = "now"
                   THEN robustLoop(enableDropdown, urimPattern, timeGate,
                                   archivePatternRegexes, document,
                                   querySelectorAll(document, plan.selector),
                                   plan.dataProducer).page
                   ELSE document
             /\ awaiting' = suspended(plan, document)
    /\ fetchState' = [stage |-> "fetching"]
    /\ result' = [kind |-> "return"]
    /\ UNCHANGED <<timeGate, urimPattern, enableDropdown,
                   archivePatternRegexes, answers, variant>>

\* makeAllLinksRobust('a:not([data-originalurl])') of
\* src/demo/robustlinks2.js, without a data producer: the anchors are
\* selected, the patterns awaited and the default producer taken; with the
\* patterns there the call runs to its end before anything else does
CallMakeAllLinksRobustAsync ==
    /\ call.op = "none"
    /\ variant = "src/demo/robustlinks2.js"
    /\ fetchState.stage # "unsent"
    /\ Len(awaiting) < MaxAwaiting
    /\ \E selector \in {SelectorAutoInit} :
          /\ call' = [op |-> "makeAllLinksRobustAsync",
                      selector |-> selector, before |-> document]
          /\ IF archivePatternRegexes = Null
             THEN /\ awaiting' = Append(awaiting,
                                        MakeAllLinksRobustTask(
                                            querySelectorAll(document, selector),
                                            DefaultProducer))
                  /\ UNCHANGED document
             ELSE /\ document' = robustLoop(enableDropdown, urimPattern,
                                            timeGate, archivePatternRegexes,
                                            document,
                                            querySelectorAll(document, selector),
                                            DefaultProducer).page
                  /\ UNCHANGED awaiting
    /\ result' = [kind |-> "return"]
    /\ UNCHANGED <<timeGate, urimPattern, enableDropdown, archiveVars,
                   variant>>

\* parseVersionUrl with its loop followed step by step
NextLoop ==
    \/ EnterParseVersionUrl
    \/ Iterate
    \/ ReturnSnapshots
    \/ Finish

SpecLoop == Init /\ [][NextLoop]_vars

\* the same, where a call under way takes its next step: weak fairness of
\* Iterate, which is enabled exactly when InLoop holds, and of
\* ReturnSnapshots
SpecLoopFair ==
    /\ SpecLoop
    /\ ([]<>~InLoop \/ []<><<Iterate>>_vars)
    /\ WF_vars(ReturnSnapshots)

\* the archive classifier with the patterns written into it
NextKnownArchive ==
    \/ CallIsArchiveUrl
    \/ Finish

SpecKnownArchive == Init /\ [][NextKnownArchive]_vars

\* the validator of absolute http/https URLs
NextValidator ==
    \/ CallIsValidAbsoluteUrl
    \/ Finish

SpecValidator == Init /\ [][NextValidator]_vars

\* the archive classifier with the patterns loaded after construction
NextLoader ==
    \/ FetchResolves
    \/ FetchRejects
    \/ JsonResolves
    \/ JsonRejects
    \/ CallIsArchiveUrlLoaded
    \/ Finish

SpecLoader == Init /\ [][NextLoader]_vars

\* the same, where a request that can settle does settle and a call under
\* way returns
SpecLoaderFair ==
    /\ SpecLoader
    /\ SF_vars(FetchResolves \/ FetchRejects)
    /\ SF_vars(JsonResolves \/ JsonRejects)
    /\ WF_vars(Finish)

\* the links of a page made robust
NextPage ==
    \/ CallUpdateAnchorToRobustLink
    \/ CallMakeAllLinksRobust
    \/ Finish

SpecPage == InitPage /\ [][NextPage]_vars

\* construction with auto-initialisation while the patterns are loaded
NextAutoInit ==
    \/ Constructor
    \/ FetchResolves
    \/ FetchRejects
    \/ JsonResolves
    \/ JsonRejects
    \/ CallMakeAllLinksRobustAsync
    \/ Finish

SpecAutoInit == InitAuto /\ [][NextAutoInit]_vars

(***************************************************************************)
(* Properties.                                                             *)
(***************************************************************************)
\* the raw attributes of the parseRobustLink call under way
Raw == call.rawAttributes

\* the original URL a parseRobustLink call works with: the supplied one, or
\* href when none (or an empty one) was supplied
EffectiveOriginalUrl ==
    IF IsFalsy(Raw.originalurl) THEN Raw.href ELSE Raw.originalurl

\* the steps of C1 in their order, each with whether the call violates it; an
\* attribute counts as missing when it is undefined or the empty string
StepNames ==
    <<"MissingHref", "MissingOriginalUrl", "MissingVersionDate",
      "InvalidHref", "InvalidOriginalUrl", "InvalidVersionDate">>

StepViolated ==
    <<IsFalsy(Raw.href),
      IsFalsy(EffectiveOriginalUrl),
      IsFalsy(Raw.versiondate),
      ~isValidAbsoluteUrl(Raw.href),
      ~isValidAbsoluteUrl(EffectiveOriginalUrl),
      parseDatetime(Raw.versiondate) = Null>>

\* C1: parseRobustLink throws the error of the first violated step in the
\* order MissingHref, MissingOriginalUrl, MissingVersionDate, InvalidHref,
\* InvalidOriginalUrl, InvalidVersionDate, and returns a record only when no
\* step is violated
C1_FirstViolatedStep ==
    call.op = "parseRobustLink" =>
        LET violated == StepViolated
        IN  IF \E k \in 1..6 : violated[k]
            THEN LET first == CHOOSE k \in 1..6 :
                                 /\ violated[k]
                                 /\ \A m \in 1..(k - 1) : ~violated[m]
                 IN  result.kind = "throw" /\ result.error = StepNames[first]
            ELSE result.kind = "return"

\* a relative href without data-versiondate reports MissingVersionDate
C1_Witness ==
    /\ call.op = "parseRobustLink"
    /\ Raw.href = UriRelative
    /\ Raw.versiondate = Undefined
    /\ result.kind = "throw"
    /\ result.error = "MissingVersionDate"

\* C2: a record returned by parseRobustLink has a valid href and originalUrl,
\* the non-null Date of the supplied data-versiondate and a sequence of
\* snapshots with valid uris; a failed call carries no record at all
C2_RecordFullyValid ==
    call.op = "parseRobustLink" =>
        IF result.kind = "return"
        THEN /\ isValidAbsoluteUrl(result.value.href)
             /\ isValidAbsoluteUrl(result.value.originalUrl)
             /\ result.value.versionDate # Null
             /\ result.value.versionDate = parseDatetime(Raw.versiondate)
             /\ DOMAIN result.value.versionSnapshots
                   = 1..Len(result.value.versionSnapshots)
             /\ \A k \in DOMAIN result.value.versionSnapshots :
                   isValidAbsoluteUrl(result.value.versionSnapshots[k].uri)
        ELSE result.kind = "throw" /\ "value" \notin DOMAIN result

\* a record with a supplied original URL and at least one snapshot
C2_Witness ==
    /\ call.op = "parseRobustLink"
    /\ result.kind = "return"
    /\ Raw.originalurl = UriDollar
    /\ Len(result.value.versionSnapshots) >= 1

\* the tokens of the parseVersionUrl call under way
Tokens ==
    IF IsFalsy(call.versionUrlString) THEN <<>>
    ELSE splitParts(call.versionUrlString)

\* the positions of the tokens that are valid absolute http/https URIs
UriPositions(tokens) ==
    {k \in DOMAIN tokens : isValidAbsoluteUrl(tokens[k])}

\* the positions of the tokens that parseDatetime accepts
DatetimePositions(tokens) ==
    {k \in DOMAIN tokens : parseDatetime(tokens[k]) # Null}

\* the j-th smallest element of a set of positions
Nth(positions, j) ==
    CHOOSE k \in positions : Cardinality({m \in positions : m < k}) = j - 1

\* the snapshot C3 expects for the URI token at position k: with the next
\* token as datetime iff that token exists and parseDatetime accepts it
SnapshotOf(tokens, datetimes, k) ==
    IF k + 1 \in datetimes
    THEN [uri |-> tokens[k], datetime |-> tokens[k + 1]]
    ELSE [uri |-> tokens[k]]

\* C3: parseVersionUrl returns one snapshot per valid URI token, in token
\* order, with the raw text of the next token as datetime iff that token
\* exists and parseDatetime accepts it
C3_GreedyPairwiseScan ==
    call.op = "parseVersionUrl" =>
        LET tokens    == Tokens
            uris      == UriPositions(tokens)
            datetimes == DatetimePositions(tokens)
        IN  /\ Len(result.value) = Cardinality(uris)
            /\ \A j \in 1..Len(result.value) :
                  result.value[j] = SnapshotOf(tokens, datetimes, Nth(uris, j))

\* a URI with its datetime followed by a URI without one
C3_Witness ==
    /\ call.op = "parseVersionUrl"
    /\ Tokens = <<UriA, WaDatetime, UriSnap>>
    /\ result.value = <<[uri |-> UriA, datetime |-> WaDatetime],
                        [uri |-> UriSnap]>>

\* C4: every token in URI position that is not a valid URI is skipped with
\* exactly one warning, in order; a datetime is attached only to the valid URI
\* right before it, so one that comes first, follows a skipped token or
\* follows an attached datetime is skipped and attached to nothing
C4_SkipWithOneWarning ==
    call.op = "parseVersionUrl" =>
        LET tokens    == Tokens
            uris      == UriPositions(tokens)
            datetimes == DatetimePositions(tokens)
            \* the datetimes right after a valid URI: the attached ones
            attached  == {k \in datetimes : k - 1 \in uris}
            \* the tokens that are neither a valid URI nor attached
            skipped   == (DOMAIN tokens \ uris) \ attached
        IN  /\ Len(result.warned) = Cardinality(skipped)
            /\ \A j \in 1..Len(result.warned) :
                  result.warned[j] = tokens[Nth(skipped, j)]
            /\ datetimes \ attached \subseteq skipped
            /\ Cardinality({j \in DOMAIN result.value :
                               "datetime" \in DOMAIN result.value[j]})
                  = Cardinality(attached)
            /\ \A j \in DOMAIN result.value :
                  "datetime" \in DOMAIN result.value[j]
                     => \E k \in attached :
                           /\ result.value[j].datetime = tokens[k]
                           /\ result.value[j].uri = tokens[k - 1]

\* a datetime that follows an attached datetime
C4_Witness ==
    /\ call.op = "parseVersionUrl"
    /\ Tokens = <<UriA, WaDatetime, IsoDate>>
    /\ result.warned = <<IsoDate>>
    /\ result.value = <<[uri |-> UriA, datetime |-> WaDatetime]>>

\* the whitespace characters of the inputs: space, tab and the newlines
WhitespaceChars == {" ", "\t", "\n", "\r"}

\* the length of the longest prefix of str without a character of seps
RECURSIVE RunLength(_, _)
RunLength(str, seps) ==
    IF str = <<>> \/ str[1] \in seps THEN 0
    ELSE 1 + RunLength(Tail(str), seps)

\* the maximal runs of characters of str that are not in seps, in order
RECURSIVE TokensBy(_, _)
TokensBy(str, seps) ==
    IF str = <<>> THEN <<>>
    ELSE IF str[1] \in seps THEN TokensBy(Tail(str), seps)
    ELSE LET n == RunLength(str, seps)
         IN  <<SubSeq(str, 1, n)>> \o TokensBy(From(str, n + 1), seps)

\* the argument of the parseVersionUrl call under way, "" when it is undefined
VersionUrlArg ==
    IF call.versionUrlString = Undefined THEN <<>> ELSE call.versionUrlString

LinkTokens ==
    IF IsFalsy(Raw.versionurl) THEN <<>> ELSE splitParts(Raw.versionurl)

\* C6: parseRobustLink succeeds, or fails with the same error, exactly as it
\* does for the same attributes without data-versionurl; the other fields of
\* the record are the same, and skipped tokens only shorten versionSnapshots
C6_VersionUrlNeverFails ==
    call.op = "parseRobustLink" =>
        LET without == parseRobustLink([Raw EXCEPT !.versionurl = Undefined],
                                       call.defaultLinkText)
        IN  /\ result.kind = without.kind
            /\ result.kind = "throw" => result.error = without.error
            /\ result.kind = "return" =>
                  /\ result.value.href = without.value.href
                  /\ result.value.originalUrl = without.value.originalUrl
                  /\ result.value.versionDate = without.value.versionDate
                  /\ Len(result.value.versionSnapshots) + Len(result.warned)
                        <= Len(LinkTokens)
                  /\ \A k \in DOMAIN result.value.versionSnapshots :
                        result.value.versionSnapshots[k].uri
                           \in Range(LinkTokens)

\* a record returned although a junk token and a stray datetime were skipped
C6_Witness ==
    /\ call.op = "parseRobustLink"
    /\ LinkTokens = <<Junk, WaDatetime>>
    /\ result.kind = "return"
    /\ result.warned = <<Junk, WaDatetime>>
    /\ result.value.versionSnapshots = <<>>

\* C7: without data-versiondate (undefined or empty) parseRobustLink returns
\* no record, and with a non-empty href the error is MissingVersionDate
C7_NoDefaultVersionDate ==
    (call.op = "parseRobustLink" /\ IsFalsy(Raw.versiondate)) =>
        /\ result.kind = "throw"
        /\ "value" \notin DOMAIN result
        /\ ~IsFalsy(Raw.href) => result.error = "MissingVersionDate"

\* valid href and original URL, no data-versiondate
C7_Witness ==
    /\ call.op = "parseRobustLink"
    /\ Raw.href = UriB
    /\ Raw.originalurl = UriA
    /\ Raw.versiondate = Undefined
    /\ result.kind = "throw"
    /\ result.error = "MissingVersionDate"

\* C8: in a returned record href is the supplied href, and originalUrl is
\* href when data-originalurl was absent or empty and the supplied
\* data-originalurl otherwise
C8_OriginalUrlDefaultsToHref ==
    (call.op = "parseRobustLink" /\ result.kind = "return") =>
        /\ result.value.href = Raw.href
        /\ IsFalsy(Raw.originalurl) => result.value.originalUrl = Raw.href
        /\ ~IsFalsy(Raw.originalurl)
              => result.value.originalUrl = Raw.originalurl

\* an empty data-originalurl defaulted to href
C8_Witness ==
    /\ call.op = "parseRobustLink"
    /\ result.kind = "return"
    /\ Raw.originalurl = <<>>
    /\ Raw.href = UriB
    /\ result.value.originalUrl = UriB

PatternP == SubSeq(urimPattern, 1, IndexOf(urimPattern, DatetimePlaceholder) - 1)

PatternRest ==
    From(urimPattern,
         IndexOf(urimPattern, DatetimePlaceholder) + Len(DatetimePlaceholder))

PatternM == SubSeq(PatternRest, 1, IndexOf(PatternRest, UrirPlaceholder) - 1)

PatternS ==
    From(PatternRest, IndexOf(PatternRest, UrirPlaceholder) + Len(UrirPlaceholder))

\* C10: with a datetime, createMementoUri returns exactly
\* P + datetime + M + originalUrl + S for every valid originalUrl
C10_VerbatimSubstitution ==
    (/\ call.op = "createMementoUri"
     /\ call.dateTime # NoDate
     /\ isValidAbsoluteUrl(call.originalUrl)) =>
        /\ result.kind = "return"
        /\ result.value = PatternP \o formatDateTime(call.dateTime) \o PatternM
                             \o call.originalUrl \o PatternS

FourteenDigits(date) ==
    LET c == CivilFromDays(date.days)
    IN  WaDatetimeOf(c.year, c.month, c.day,
                     <<date.secs \div 3600, (date.secs % 3600) \div 60,
                       date.secs % 60>>)

\* C12: for every Date parseDatetime returns, formatDateTime produces exactly
\* 14 decimal digits, the zero-padded UTC fields YYYYMMDDhhmmss, and
\* parseDatetime reads that string back as the same instant
C12_FourteenDigitsRoundTrip ==
    call.op = "formatDateTime" =>
        /\ Len(result.value) = 14
        /\ \A k \in DOMAIN result.value : IsDigit(result.value[k])
        /\ result.value = FourteenDigits(call.date)
        /\ parseDatetime(result.value) = call.date

\* a string with every decimal digit replaced by "9"
Shape(str) == [k \in DOMAIN str |-> IF IsDigit(str[k]) THEN "9" ELSE str[k]]

\* "9999-99-99"
IsoDateShape ==
    <<"9","9","9","9","-","9","9","-","9","9">>

\* "9999-99-99T99:99:99Z"
IsoDatetimeShape ==
    <<"9","9","9","9","-","9","9","-","9","9","T","9","9",":","9","9",":",
      "9","9","Z">>

\* "99999999"
WaDateShape ==
    <<"9","9","9","9","9","9","9","9">>

\* "99999999999999"
WaDatetimeShape ==
    <<"9","9","9","9","9","9","9","9","9","9","9","9","9","9">>

\* the decimal digits of a string, in order
DigitsOf(str) == SelectSeq(str, IsDigit)

\* the number of days of month m of year y
DaysInMonth(y, m) ==
    IF m \in {4, 6, 9, 11} THEN 30
    ELSE IF m # 2 THEN 31
    ELSE IF y % 4 = 0 /\ (y % 100 # 0 \/ y % 400 = 0) THEN 29
    ELSE 28

\* C14: parseDatetime never throws; it returns a Date exactly for the strings
\* of the four shapes and null for every other string; the ISO and the
\* Web-Archive spelling of the same fields give the same Date; and the fields
\* of a calendar date give 12:00:00 UTC of that day (date-only shapes) or
\* exactly that UTC instant (datetime shapes)
C14_FourGrammars ==
    call.op = "parseDatetime" =>
        LET str    == call.datetimeStr
            shape  == Shape(str)
            digits == DigitsOf(str)
            y      == IntAt(digits, 1, 4)
            m      == IntAt(digits, 5, 2)
            d      == IntAt(digits, 7, 2)
            secs   == IF Len(digits) = 8 THEN 12 * 3600
                      ELSE IntAt(digits, 9, 2) * 3600
                           + IntAt(digits, 11, 2) * 60 + IntAt(digits, 13, 2)
        IN  /\ result.kind = "return"
            /\ IF shape \in {IsoDateShape, IsoDatetimeShape, WaDateShape,
                              WaDatetimeShape}
               THEN /\ result.value # Null
                    /\ result.value = parseDatetime(digits)
                    /\ (/\ m \in 1..12
                        /\ d \in 1..DaysInMonth(y, m)
                        /\ secs < 86400
                        /\ Len(digits) = 14 =>
                              /\ IntAt(digits, 11, 2) <= 59
                              /\ IntAt(digits, 13, 2) <= 59)
                          => result.value
                                = [days |-> DaysFromCivil(y, m, d),
                                   secs |-> secs]
               ELSE result.value = Null

\* the value of the attribute that marker opens in an <a> tag: the characters
\* between the marker and the next double quote
AttrValue(html, marker) ==
    LET rest == From(html, IndexOf(html, marker) + Len(marker))
    IN  SubSeq(rest, 1, IndexOf(rest, HtmlQuote) - 1)

\* C13: when the data-versiondate a record was parsed from has the shape
\* YYYY-MM-DD, the data-versiondate written for the record is that string
C13_DateOnlyRoundTrip ==
    (/\ call.op = "createRobustLinkHtml"
     /\ "rawAttributes" \in DOMAIN call
     /\ isoDateMatch(Raw.versiondate)) =>
        AttrValue(result.value, HtmlVersionDate) = Raw.versiondate

\* every token of str is a valid URI or a datetime right after a valid URI
UrisWithOptionalDatetimes(tokens) ==
    \A k \in DOMAIN tokens :
       \/ isValidAbsoluteUrl(tokens[k])
       \/ /\ k > 1
          /\ parseDatetime(tokens[k]) # Null
          /\ isValidAbsoluteUrl(tokens[k - 1])

RECURSIVE MatchesPrefix(_, _)
MatchesPrefix(pattern, url) ==
    IF pattern = <<>> THEN TRUE
    ELSE IF Len(pattern) >= 2 /\ pattern[2] = "?"
    THEN \/ MatchesPrefix(From(pattern, 3), url)
         \/ /\ url # <<>>
            /\ ToLower(url[1]) = ToLower(pattern[1])
            /\ MatchesPrefix(From(pattern, 3), Tail(url))
    ELSE IF MatchesAt(pattern, DigitsPattern, 1)
    THEN \E n \in 1..Len(url) :
            /\ \A j \in 1..n : IsDigit(url[j])
            /\ MatchesPrefix(From(pattern, Len(DigitsPattern) + 1),
                             From(url, n + 1))
    ELSE IF MatchesAt(pattern, CodePattern, 1)
    THEN /\ Len(url) >= 4
         /\ \A j \in 1..4 : IsDigit(url[j]) \/ IsAlpha(url[j])
         /\ MatchesPrefix(From(pattern, Len(CodePattern) + 1), From(url, 5))
    ELSE /\ url # <<>>
         /\ ToLower(url[1]) = ToLower(pattern[1])
         /\ MatchesPrefix(Tail(pattern), Tail(url))

\* a sequence in reverse order
Reverse(seq) == [k \in DOMAIN seq |-> seq[Len(seq) + 1 - k]]

\* C17: isArchiveUrl returns true iff some pattern, anchored at the start
\* of the URL and without regard to case, matches a prefix of it; the
\* patterns tried in the opposite order give the same answer
C17_ExistentialPrefixMatch ==
    call.op = "isArchiveUrl" =>
        /\ result.value
              = (\E k \in DOMAIN ArchivePatterns :
                    MatchesPrefix(ArchivePatterns[k], call.url))
        /\ result.value = somePattern(Reverse(ArchivePatterns), call.url)

\* an archive prefix that begins after position 0 of the URL
C17_Witness ==
    /\ call.op = "isArchiveUrl"
    /\ call.url = UrlInQuery
                    \o UrlAfter(ArchivePatterns[1], <<"h","t","t","p">>,
                                <<"2","0","2","0">>, <<"A","B","1","2">>,
                                <<".">>)
                    \o UriA
    /\ result.value = FALSE

\* C16: while the patterns are not loaded isArchiveUrl returns false, for
\* every URL; after they are loaded it returns true iff some loaded pattern
\* matches a prefix of the URL; it never throws
C16_FalseUntilLoaded ==
    call.op = "isArchiveUrl" =>
        /\ result.kind = "return"
        /\ fetchState.stage \in {"fetching", "reading"}
              => result.value = FALSE
        /\ fetchState.stage = "loaded"
              => result.value
                   = (\E k \in DOMAIN fetchState.archivePatterns :
                         MatchesPrefix(fetchState.archivePatterns[k],
                                       call.url))

\* a URL of a known archive is asked about while the response is read
C16_Witness ==
    /\ call.op = "isArchiveUrl"
    /\ call.url = UrlWeb
    /\ fetchState.stage = "reading"
    /\ result.value = FALSE

\* C18: while _archivePatternRegexes is not assigned anew, isArchiveUrl
\* answers the same URL the same way whatever calls were made in between,
\* and the calls leave the compiled patterns as they were
C18_Pure ==
    /\ \A a, b \in answers : a[1] = b[1] => a[2] = b[2]
    /\ archivePatternRegexes # Null
          => \A k \in DOMAIN archivePatternRegexes.array :
                archivePatternRegexes.array[k].lastIndex = 0

\* two URLs were asked about after the load, one of them of a known archive
C18_Witness ==
    /\ fetchState.stage = "loaded"
    /\ <<UrlWeb, TRUE>> \in answers
    /\ <<UriA, FALSE>> \in answers
    /\ call.op = "isArchiveUrl"
    /\ call.url = UrlWeb

\* the code points a domain may hold, written out or as a percent-escape
DomainCodePoints ==
    Range(AsciiPrintable) \ (ForbiddenHostCodePoints \cup {"%"})

\* whether host spells a domain: allowed code points and percent-escapes of
\* allowed code points
SpellsDomain(host) ==
    /\ host # <<>>
    /\ \A j \in DOMAIN host :
          IF host[j] # "%" THEN host[j] \in DomainCodePoints
          ELSE /\ j + 2 <= Len(host)
               /\ HexVal(host[j + 1]) >= 0
               /\ HexVal(host[j + 2]) >= 0
               /\ 16 * HexVal(host[j + 1]) + HexVal(host[j + 2]) \in 32..126
               /\ AsciiPrintable[16 * HexVal(host[j + 1])
                                   + HexVal(host[j + 2]) - 31]
                     \in DomainCodePoints

\* whether str, between the positions a and e - 1, is an authority with a
\* non-empty host: [credentials@]host[:port]
SpellsAuthority(str, a, e) ==
    \E h \in a..(e - 1), p \in (a + 1)..e :
        /\ h < p
        /\ h = a \/ str[h - 1] = "@"
        /\ \A j \in h..(e - 1) : str[j] # "@"
        /\ \A j \in h..(p - 1) : str[j] # ":"
        /\ SpellsDomain(SubSeq(str, h, p - 1))
        /\ \/ p = e
           \/ /\ str[p] = ":"
              /\ \A j \in (p + 1)..(e - 1) : IsDigit(str[j])
              /\ Len(StripZeros(SubSeq(str, p + 1, e - 1))) <= 5
              /\ ParseInt(StripZeros(SubSeq(str, p + 1, e - 1))) <= 65535

\* whether url, spaces and line breaks aside, is http or https in any case,
\* a colon, any number of slashes, an authority with a non-empty host and
\* then nothing or a path, query or fragment
SpellsHttpUrl(url) ==
    LET str == UrlInput(url)
    IN  \E c \in DOMAIN str :
           /\ str[c] = ":"
           /\ [j \in 1..(c - 1) |-> ToLower(str[j])]
                 \in {<<"h","t","t","p">>, <<"h","t","t","p","s">>}
           /\ \E a \in (c + 1)..(Len(str) + 1), e \in (c + 1)..(Len(str) + 1) :
                 /\ a < e
                 /\ \A j \in (c + 1)..(a - 1) : str[j] \in {"/", "\\"}
                 /\ \A j \in a..(e - 1) : str[j] \notin {"/", "\\", "?", "#"}
                 /\ e <= Len(str) => str[e] \in {"/", "\\", "?", "#"}
                 /\ SpellsAuthority(str, a, e)

\* C19: isValidAbsoluteUrl returns a boolean for every string and never
\* throws; the boolean is true iff the string is a URL with the scheme http
\* or https and a non-empty host
C19_TotalValidator ==
    call.op = "isValidAbsoluteUrl" =>
        /\ result.kind = "return"
        /\ result.value \in BOOLEAN
        /\ result.value = SpellsHttpUrl(call.url)

\* a host that is a malformed percent-escape
C19_Witness ==
    /\ call.op = "isValidAbsoluteUrl"
    /\ call.url = <<"h","t","t","p",":","/","/","%","z","z","/","%","z","z","?","q","=","%","#","%">>
    /\ result.value = FALSE

\* whether updateAnchorToRobustLink has to refuse the element and options
Refused(element, options) ==
    \/ element = Null
    \/ element.tag # "a"
    \/ ~isValidAbsoluteUrl(options.originalUrl)
    \/ options.versionDate \in {InvalidDate, NotADate}

\* C20: when updateAnchorToRobustLink throws, as it does for an element
\* that is no anchor, an originalUrl that is not an absolute http/https URI
\* and a versionDate that is no valid Date, the page is as it was before
\* the call; in makeAllLinksRobust such an element is as it was, has an
\* error written to the console and is not among the anchors returned
C20_FailedUpdateLeavesAnchor ==
    /\ call.op = "updateAnchorToRobustLink" =>
          LET element == IF call.anchor = 0 THEN Null
                         ELSE call.before[call.anchor]
          IN  /\ result.kind = "throw" <=> Refused(element, call.options)
              /\ result.kind = "throw" => document = call.before
    /\ call.op = "makeAllLinksRobust" =>
          \A anchor \in DOMAIN call.dataProducer :
             LET linkData == call.dataProducer[anchor]
             IN  /\ "originalUrl" \in DOMAIN linkData
                 /\ Refused(call.before[anchor], linkData)
                 => /\ document[anchor] = call.before[anchor]
                    /\ anchor \notin Range(result.value)
                    /\ \E k \in DOMAIN result.errors :
                          result.errors[k].anchor = anchor

\* with dropdowns enabled, makeAllLinksRobust updates one anchor and fails
\* on another for its versionDate
C20_Witness ==
    /\ call.op = "makeAllLinksRobust"
    /\ enableDropdown
    /\ Len(result.value) = 1
    /\ \E k \in DOMAIN result.errors :
          /\ result.errors[k].error = "InvalidVersionDate"
          /\ call.before[result.errors[k].anchor].tag = "a"
    /\ document # call.before

\* whether url matches one of the patterns that were loaded
MatchesLoaded(url) ==
    /\ fetchState.stage = "loaded"
    /\ isKnownArchiveLoaded(Array(compiledPatterns(fetchState.archivePatterns)),
                            url).value

\* whether the default data producer has rewritten the anchor: its
\* data-originalurl is the href it had and its href the TimeGate URI for it
RewrittenToTimeGate(anchorElement) ==
    /\ anchorElement.attributes["data-originalurl"] # Undefined
    /\ anchorElement.attributes["href"]
          = timeGate \o anchorElement.attributes["data-originalurl"]

\* C21: in the variants that load the exclusion patterns after
\* construction, under every interleaving of construction,
\* auto-initialisation, makeAllLinksRobust and the completion of the load,
\* no anchor whose href matches one of the patterns that end up loaded has
\* its href rewritten to a TimeGate URI
C21_NoRewriteOfArchiveLinks ==
    \A k \in DOMAIN document :
       RewrittenToTimeGate(document[k])
       => ~MatchesLoaded(document[k].attributes["data-originalurl"])

\* C21 holds where the default data producer runs after the await: in
\* src/unnamed/part_000 and src/demo/robustlinks2.js
C21_AwaitingVariants ==
    variant # "src/unnamed/part_001" => C21_NoRewriteOfArchiveLinks

\* whether the promise of _loadAndCompileArchivePatterns, which
\* getExclusionsReadyPromise returns, has resolved
ExclusionsReady == fetchState.stage \in {"loaded", "failed"}

IsUtcDateOf(text, date) ==
    /\ Len(text) = 10
    /\ text[5] = "-" /\ text[8] = "-"
    /\ parseDatetime(text) # Null
    /\ parseDatetime(text).days = date.days

\* the snapshots written one after the other: "uri" or "uri datetime" each,
\* a space between them
RECURSIVE SnapshotsText(_)
SnapshotsText(snapshots) ==
    IF snapshots = <<>> THEN <<>>
    ELSE snapshots[1].uri
         \o (IF "datetime" \in DOMAIN snapshots[1]
                /\ snapshots[1].datetime # <<>>
             THEN <<" ">> \o snapshots[1].datetime ELSE <<>>)
         \o (IF Len(snapshots) > 1 THEN <<" ">> ELSE <<>>)
         \o SnapshotsText(Tail(snapshots))

\* the snapshot list of options, empty when it has none
SnapshotsOf(options) ==
    IF "versionSnapshots" \in DOMAIN options THEN options.versionSnapshots
    ELSE <<>>

\* whether the anchor carries the three data attributes for options
CarriesRobustData(anchorElement, options) ==
    /\ anchorElement.attributes["data-originalurl"] = options.originalUrl
    /\ IsUtcDateOf(anchorElement.attributes["data-versiondate"],
                   options.versionDate)
    /\ IF SnapshotsOf(options) = <<>>
       THEN anchorElement.attributes["data-versionurl"] = Undefined
       ELSE anchorElement.attributes["data-versionurl"]
               = SnapshotsText(SnapshotsOf(options))

\* C23: after every successful updateAnchorToRobustLink, called directly
\* or by makeAllLinksRobust, the anchor carries data-originalurl equal to
\* originalUrl, data-versiondate equal to the UTC date of versionDate, and
\* data-versionurl iff the snapshot list is not empty, then with the
\* serialised list as its value; a data-versionurl the anchor had before
\* is removed when there are no snapshots
C23_DataAttributesWritten ==
    /\ (call.op = "updateAnchorToRobustLink" /\ result.kind = "return")
          => CarriesRobustData(document[call.anchor], call.options)
    /\ call.op = "makeAllLinksRobust"
          => \A k \in DOMAIN result.value :
                CarriesRobustData(document[result.value[k]],
                                  call.dataProducer[result.value[k]])

\* a robust link that had a data-versionurl is updated without snapshots:
\* it has the new data-originalurl, the date 2022-11-23 and no
\* data-versionurl
C23_Witness ==
    /\ call.op = "updateAnchorToRobustLink"
    /\ result.kind = "return"
    /\ call.before[call.anchor].attributes["data-versionurl"] = UriSnap
    /\ call.before[call.anchor].attributes["data-originalurl"] = UriB
    /\ document[call.anchor].attributes["data-originalurl"] = UriA
    /\ document[call.anchor].attributes["data-versiondate"]
          = <<"2","0","2","2","-","1","1","-","2","3">>
    /\ document[call.anchor].attributes["data-versionurl"] = Undefined

\* whether options bring a newHref that spells an http or https URI
BringsNewHref(options) ==
    /\ "newHref" \in DOMAIN options
    /\ options.newHref # <<>>
    /\ SpellsHttpUrl(options.newHref)

\* whether the anchor has the href it should have after a call with options
\* that was not refused, and the data-* attributes in either case
HrefFollows(old, new, options) ==
    /\ new.attributes["href"]
          = IF BringsNewHref(options) THEN options.newHref
                                      ELSE old.attributes["href"]
    /\ CarriesRobustData(new, options)

\* C24: updateAnchorToRobustLink changes href only when newHref is given
\* and is a valid absolute http/https URI, and then to newHref; with
\* newHref absent or invalid href stays as it was, the data-* attributes
\* are written all the same and the call does not throw
C24_HrefOnlyFromValidNewHref ==
    (call.op = "updateAnchorToRobustLink" /\ call.anchor \in DOMAIN document)
       => /\ Refused(call.before[call.anchor], call.options)
             \/ /\ result.kind = "return"
                /\ HrefFollows(call.before[call.anchor],
                               document[call.anchor], call.options)
          /\ ~BringsNewHref(call.options)
                => document[call.anchor].attributes["href"]
                      = call.before[call.anchor].attributes["href"]

C24_Witness ==
    /\ call.op = "updateAnchorToRobustLink"
    /\ call.anchor \in DOMAIN document
    /\ result.kind = "return"
    /\ Get(call.options, "newHref") = UriFtp
    /\ document[call.anchor].attributes["href"] = UriA
    /\ document[call.anchor].attributes["data-originalurl"] = UriB
    /\ call.before[call.anchor].attributes["data-originalurl"] = Undefined

\* the positions of the elements of the page that the selector matches
Selected(page, selector) ==
    {k \in DOMAIN page : matches(page[k], selector)}

\* whether the data producer gave data for the element and the update of
\* the element with them goes through
GoesThrough(element, linkData) ==
    /\ linkData # Null
    /\ "throws" \notin DOMAIN linkData
    /\ ~Refused(element, linkData)

\* whether the positions are in document order, none twice
InDocumentOrder(positions) ==
    \A i, j \in DOMAIN positions : i < j => positions[i] < positions[j]

\* C25: makeAllLinksRobust deals with every element the selector matches
\* on its own: the list returned holds, in document order, exactly the
\* matching elements for which the data producer returned data and the
\* update did not throw, whatever happened for the elements before them;
\* every other matching element with data or a throwing producer has an
\* error on the console, and one with null for data is left as it was
C25_FailuresIsolatedPerAnchor ==
    call.op = "makeAllLinksRobust"
       => LET sel == Selected(call.before, call.selector)
          IN  /\ InDocumentOrder(result.value)
              /\ Range(result.value)
                    = {k \in sel : GoesThrough(call.before[k],
                                               call.dataProducer[k])}
              /\ InDocumentOrder([i \in DOMAIN result.errors |->
                                     result.errors[i].anchor])
              /\ {result.errors[i].anchor : i \in DOMAIN result.errors}
                    = {k \in sel :
                          /\ call.dataProducer[k] # Null
                          /\ ~GoesThrough(call.before[k],
                                          call.dataProducer[k])}
              /\ \A k \in sel :
                    call.dataProducer[k] = Null
                       => document[k] = call.before[k]
              /\ \A k \in DOMAIN document \ sel :
                    document[k] = call.before[k]

C25_Witness ==
    /\ call.op = "makeAllLinksRobust"
    /\ call.selector = SelectorLink
    /\ Len(call.before) = 3
    /\ call.dataProducer[1] = [throws |-> TRUE]
    /\ call.before[2].tag = "p"
    /\ call.dataProducer[2] # Null
    /\ "throws" \notin DOMAIN call.dataProducer[2]
    /\ result.value = <<3>>
    /\ Len(result.errors) = 2
    /\ document[3] # call.before[3]

\* whether the anchor is one auto-initialisation has to make robust: it
\* has no data-originalurl and an http or https URL of no known archive
\* for its href
ToBeMadeRobust(anchorElement) ==
    /\ matches(anchorElement, SelectorAutoInit)
    /\ SpellsHttpUrl(hrefOf(anchorElement))
    /\ ~isKnownArchive(hrefOf(anchorElement))

\* whether the anchor carries data-originalurl and data-versiondate
MadeRobust(anchorElement) ==
    /\ anchorElement.attributes["data-originalurl"] # Undefined
    /\ anchorElement.attributes["data-versiondate"] # Undefined

\* C26: when the class has been constructed with autoInit true, given or
\* by default, and no part of the construction waits for the patterns any
\* more, every anchor of the page with an http or https href of no archive
\* carries data-originalurl and data-versiondate
C26_AutoInitProcessesPage ==
    ( /\ call.op = "constructor"
      /\ autoInitConfigOf(variant, call.config) = [boolean |-> TRUE]
      /\ awaiting = <<>> )
       => \A k \in DOMAIN call.before :
             ToBeMadeRobust(call.before[k]) => MadeRobust(document[k])

\* C26 holds where _initAuto runs the producer it chose: in
\* src/unnamed/part_000 and src/demo/robustlinks2.js the calls that waited
\* with the default producer leave every such anchor robust when the
\* patterns have come
C26_AwaitingVariants ==
    [][ (awaiting # <<>> /\ awaiting' = <<>> /\ ExclusionsReady')
           => \A i \in DOMAIN awaiting :
                 awaiting[i].dataProducer = DefaultProducer
                    => \A k \in Range(anchorsOf(document, awaiting[i])) :
                          ToBeMadeRobust(document[k])
                             => MadeRobust(document'[k]) ]_vars

\* C27: parseRobustLink never fails for a missing data-originalurl: with
\* an href the missing value is replaced by it, and without an href the
\* call fails for the missing href
C27_NeverMissingOriginalUrl ==
    call.op = "parseRobustLink"
       => /\ ~(result.kind = "throw" /\ result.error = "MissingOriginalUrl")
          /\ (Raw.originalurl \in {Undefined, <<>>} /\ result.kind = "throw")
                => IF Raw.href = <<>> THEN result.error = "MissingHref"
                   ELSE result.error \in {"MissingVersionDate", "InvalidHref",
                                          "InvalidVersionDate"}

\* a call without data-originalurl and without href fails for the href
C27_Witness ==
    /\ call.op = "parseRobustLink"
    /\ Raw.originalurl = Undefined
    /\ Raw.href = <<>>
    /\ result.kind = "throw"
    /\ result.error = "MissingHref"

\* the number of snapshots that have a datetime
WithDatetime(snapshots) ==
    Cardinality({j \in DOMAIN snapshots : "datetime" \in DOMAIN snapshots[j]})

\* C28: the loop of parseVersionUrl ends for every input: each iteration
\* moves the index on by 1 or 2 and never past the number of tokens; the
\* snapshots, the snapshots with a datetime and the warnings add up to the
\* index, and so to the number of tokens when the call returns what the
\* loop has collected; there are never more snapshots than tokens
C28_LoopTerminates ==
    /\ [](call.op = "while"
             => /\ call.i <= Len(call.parts)
                /\ Len(result.snapshots) + WithDatetime(result.snapshots)
                      + Len(result.warned) = call.i)
    /\ [][(call.op = "while" /\ call'.op = "while")
             => call'.i - call.i \in {1, 2}]_vars
    /\ [](call.op = "parseVersionUrl"
             => /\ Len(result.value) + WithDatetime(result.value)
                      + Len(result.warned) = Len(Tokens)
                /\ Len(result.value) <= Len(Tokens)
                /\ result.value = parseVersionUrl(call.versionUrlString).snapshots
                /\ result.warned = parseVersionUrl(call.versionUrlString).warned)
    /\ (call.op = "while") ~> (call.op = "parseVersionUrl")

\* the loop at its end after a skipped token and a URI with its datetime
C28_Witness ==
    /\ call.op = "while"
    /\ call.parts = <<Junk, UriA, WaDatetime>>
    /\ call.i = 3
    /\ result.snapshots = <<[uri |-> UriA, datetime |-> WaDatetime]>>
    /\ result.warned = <<Junk>>

\* whether the snapshot has a valid absolute http/https URI without a
\* space and, if it has a datetime, one parseDatetime accepts
Serialisable(snapshot) ==
    /\ isValidAbsoluteUrl(snapshot.uri)
    /\ \A j \in DOMAIN snapshot.uri : snapshot.uri[j] # " "
    /\ "datetime" \in DOMAIN snapshot => parseDatetime(snapshot.datetime) # Null

\* snapshots with and without a datetime, among them some that are not
\* serialisable: a URI with a space, a relative one, a datetime that
\* parseDatetime rejects and an empty one
SnapshotChoices ==
    {[uri |-> uri] : uri \in {UriA, UriSnap, UriRelative, UriA \o <<" ">> \o UriB}}
    \cup {[uri |-> uri, datetime |-> datetime] :
             uri \in {UriA, UriSnap},
             datetime \in {WaDatetime, IsoDate, BadDate, <<>>}}

\* those of them that are serialisable
SerialisableChoices ==
    UNION {IF Serialisable(snapshot) THEN {snapshot} ELSE {} :
              snapshot \in SnapshotChoices}

\* the lists of at most two serialisable snapshots
SerialisableLists ==
    UNION {[1..n -> SerialisableChoices] : n \in 0..2}

\* C29: parseVersionUrl returns the list L for the string L is written as,
\* for every list L of snapshots with valid absolute http/https URIs without
\* spaces and datetimes parseDatetime accepts; and for every string, the
\* snapshots parsed from it are parsed again, with no warning, from the
\* string they are written as, which is therefore written once more
C29_ParseInvertsSerialise ==
    call.op = "parseVersionUrl"
       => /\ \A L \in SerialisableLists :
                call.versionUrlString = snapshotParts(L) => result.value = L
          /\ parseVersionUrl(snapshotParts(result.value))
                = [snapshots |-> result.value, warned |-> <<>>]
          /\ snapshotParts(parseVersionUrl(snapshotParts(result.value)).snapshots)
                = snapshotParts(result.value)

\* the string written for a URI and a URI with an ISO date, parsed
C29_Witness ==
    /\ call.op = "parseVersionUrl"
    /\ call.versionUrlString
          = snapshotParts(<<[uri |-> UriSnap],
                            [uri |-> UriA, datetime |-> IsoDate]>>)
    /\ result.value = <<[uri |-> UriSnap], [uri |-> UriA, datetime |-> IsoDate]>>
    /\ result.warned = <<>>

\* whether the element is marked as having its dropdown
Marked(element) ==
    element.attributes["data-has-robust-dropdown"] = <<"t","r","u","e">>

\* whether the anchor has exactly one dropdown after an update that went
\* through: the one it had, or else one for the originalUrl of the update
OneDropdown(old, new, originalUrl) ==
    /\ Len(new.dropdowns) = 1
    /\ Marked(new)
    /\ "robust-link-with-dropdown" \in new.classes
    /\ IF old.dropdowns # <<>> THEN new.dropdowns = old.dropdowns
       ELSE new.dropdowns[1].current = originalUrl

\* C30: with enableDropdown, an anchor has exactly one dropdown after every
\* successful updateAnchorToRobustLink, called directly or by
\* makeAllLinksRobust: the first such call attaches it and marks the
\* anchor, and no later step changes the dropdown of an anchor that has one;
\* no element ever has two, or has one without the mark
C30_ExactlyOneDropdown ==
    /\ [](\A k \in DOMAIN document :
             /\ Len(document[k].dropdowns) <= 1
             /\ document[k].dropdowns # <<>>
                   <=> (enableDropdown /\ Marked(document[k])))
    /\ []((enableDropdown /\ call.op = "updateAnchorToRobustLink"
           /\ result.kind = "return")
             => OneDropdown(call.before[call.anchor], document[call.anchor],
                            call.options.originalUrl))
    /\ []((enableDropdown /\ call.op = "makeAllLinksRobust")
             => \A j \in DOMAIN result.value :
                   OneDropdown(call.before[result.value[j]],
                               document[result.value[j]],
                               call.dataProducer[result.value[j]].originalUrl))
    /\ [][\A k \in DOMAIN document :
             document[k].dropdowns # <<>>
                => /\ document'[k].dropdowns = document[k].dropdowns
                   /\ document'[k].classes = document[k].classes
                   /\ Marked(document'[k])]_vars

\* a second update, with another originalUrl, of an anchor that has its
\* dropdown
C30_Witness ==
    /\ enableDropdown
    /\ call.op = "updateAnchorToRobustLink"
    /\ result.kind = "return"
    /\ call.anchor \in DOMAIN document
    /\ call.before[call.anchor].dropdowns # <<>>
    /\ call.before[call.anchor].dropdowns[1].current = UriA
    /\ call.options.originalUrl = UriB
    /\ document[call.anchor].attributes["data-originalurl"] = UriB
    /\ Len(document[call.anchor].dropdowns) = 1

====
